---- MODULE Spec2Model ----
(***************************************************************************)
(* LYRA 3.0 core.                                                          *)
(*   Context Store    core/context_manager.py  (class ContextManager)      *)
(*   Decision Engine  core/decision_engine.py  (class DecisionEngine)      *)
(*   Knowledge Cache  core/ai_learning.py      (class AILearningSystem)    *)
(* Python dicts are functions over a set of string keys; an insertion-     *)
(* ordered dict whose order matters is a sequence of <<key, value>> pairs;  *)
(* text is a sequence of one-character strings.  datetime.now() is the     *)
(* clock `now`, counted in hours.                                          *)
(***************************************************************************)
EXTENDS Integers, Sequences, FiniteSets, TLC

\* ---------------------------------------------------------------- bounds
\* the clock runs from 0 to MaxTime hours in steps of TickStep hours
MaxTime == 24
TickStep == 24
\* add_conversation_entry calls explored by SpecCtx / by SpecHist
MaxAdds == 2
MaxHistAdds == 102
\* entries the knowledge cache may grow to, custom patterns added to the engine
MaxKnowledge == 2
MaxCustom == 1
\* words in a generated command
MaxWords == 3
\* entries of the cache search_local_knowledge is run on
MaxPool == 9

\* ------------------------------------------------------ program constants
\* context_manager.py:191  if len(self.conversation_history) > 100
HistoryLimit == 100
\* context_manager.py:267  timedelta(hours=24)
CleanupHours == 24

\* ------------------------------------------------------------ dictionaries
EmptyDict == <<>>
\* d.get(k, default)
DictGet(d, k, default) == IF k \in DOMAIN d THEN d[k] ELSE default
\* {**d, **s}  and  d.update(s): the keys of s win
DictMerge(d, s) == s @@ d

\* =========================================================================
\* Context Store
\* =========================================================================
VARIABLES
    current_mode,          \* self.current_mode
    system_state,          \* self.system_state: component -> record
    conversation_history,  \* self.conversation_history: list of entries
    user_preferences,      \* self.user_preferences
    device_states,         \* self.device_states: device -> record
    session_start_time,    \* self.session_start_time
    last_activity,         \* self.last_activity
    context_file,          \* the document config/context.json
    now,                   \* the wall clock read by datetime.now()
    added,                 \* number of add_conversation_entry calls on this store
    cleared,               \* reset_session or cleanup_old_data ran since construction
    mode_req,              \* argument of the last accepted set_mode since construction
    op                     \* the operation that made the last step, with its argument

ctx_data == <<current_mode, system_state, conversation_history, user_preferences,
              device_states, session_start_time, last_activity>>
ctx_vars_but_op == <<current_mode, system_state, conversation_history, user_preferences,
                     device_states, session_start_time, last_activity, context_file, now,
                     added, cleared, mode_req>>
ctx_vars == <<current_mode, system_state, conversation_history, user_preferences,
              device_states, session_start_time, last_activity, context_file, now,
              added, cleared, mode_req, op>>

\* Decision Engine and Knowledge Cache
VARIABLES
    command_patterns,      \* DecisionEngine.command_patterns: ordered categories
    knowledge_base,        \* AILearningSystem.knowledge_base, in insertion order
    kb_file,               \* the document data/knowledge_base.json
    api_configs,           \* AILearningSystem.api_configs
    hashes,                \* the values hash() has given to texts in this process
    pending,               \* the command handed to process_command next
    call,                  \* the last call of the engine or of its cache: input, result
    peer_knowledge_base    \* knowledge_base of a second engine's AILearningSystem

eng_vars == <<command_patterns, knowledge_base, kb_file, api_configs, hashes, pending, call,
              peer_knowledge_base>>

valid_modes == {"home", "defense", "night", "manual"}
\* arguments tried for set_mode: the four modes and a string that is none of them
ModeArgs == valid_modes \cup {"stealth"}

\* devices registered by __init__, and the identifiers tried by callers
DefaultDevices ==
    ("trinetra" :> [connected |-> FALSE, status |-> "offline"]) @@
    ("krait3" :> [connected |-> FALSE, status |-> "offline"])
DeviceArgs == {"trinetra", "rover"}
DeviceUpdates == {[connected |-> TRUE, status |-> "online"]}

PrefKeys == {"voice"}
PrefValues == {"on"}
Components == {"tts"}
ComponentStates == {[cpu |-> 1], [mem |-> 1]}

\* the persisted document: absent, unreadable as JSON, or a JSON object
NoFile == [kind |-> "none"]
Malformed == [kind |-> "malformed"]
Document(data) == [kind |-> "doc", data |-> data]

\* _update_activity
UpdateActivityWrong(t) == last_activity
_update_activity(t) == t

\* json.dump of a flat dict: a bool becomes true or false, the text of a time
\* and every other str a string;  json.load of the object gives them back
SavedRecord(record) ==
    [k \in DOMAIN record |->
        IF k = "connected" THEN [type |-> "boolean", value |-> record[k]]
        ELSE IF k = "last_updated" THEN [type |-> "string", time |-> record[k]]
        ELSE [type |-> "string", text |-> record[k]]]
LoadedRecord(json) ==
    [k \in DOMAIN json |->
        IF json[k].type = "boolean" THEN json[k].value
        ELSE IF "time" \in DOMAIN json[k] THEN json[k].time
        ELSE json[k].text]

\* __init__ followed by _load_context: a new store over the persisted document;
\* a document that is missing, or that json.load or data.get cannot read,
\* leaves the defaults
LoadedPreferences(file) ==
    IF file.kind = "doc" /\ "user_preferences" \in DOMAIN file.data
    THEN LoadedRecord(file.data.user_preferences)
    ELSE EmptyDict
LoadedDevicesDefault(file) == DefaultDevices
LoadedDevices(file) ==
    IF file.kind = "doc" /\ "device_states" \in DOMAIN file.data
    THEN [d \in DOMAIN file.data.device_states |-> LoadedRecord(file.data.device_states[d])]
    ELSE DefaultDevices
InitialModeWrong(file) == IF file.kind = "doc" THEN "defense" ELSE "home"
InitialMode(file) == "home"

Construct ==
    /\ current_mode' = InitialMode(context_file)
    /\ system_state' = EmptyDict
    /\ conversation_history' = <<>>
    /\ user_preferences' = LoadedPreferences(context_file)
    /\ device_states' = LoadedDevices(context_file)
    /\ session_start_time' = now
    /\ last_activity' = now
    /\ cleared' = FALSE
    /\ mode_req' = "none"
    /\ added' = 0
    /\ op' = [name |-> "construct", arg |-> ""]
    /\ UNCHANGED eng_vars
    /\ UNCHANGED <<context_file, now>>

save_context ==
    /\ context_file' =
          Document([user_preferences |-> SavedRecord(user_preferences),
                    device_states |-> [d \in DOMAIN device_states |->
                                          SavedRecord(device_states[d])],
                    last_saved |-> [type |-> "string", time |-> now]])
    /\ op' = [name |-> "save_context", arg |-> ""]
    /\ UNCHANGED eng_vars
    /\ UNCHANGED <<ctx_data, now, added, cleared, mode_req>>

\* set_mode
AcceptsModeWrong(mode) == TRUE
AcceptsMode(mode) == mode \in valid_modes

set_mode(mode) ==
    /\ IF AcceptsMode(mode)
       THEN /\ current_mode' = mode
            /\ last_activity' = _update_activity(now)
       ELSE UNCHANGED <<current_mode, last_activity>>
    /\ mode_req' = IF mode \in valid_modes THEN mode ELSE mode_req
    /\ op' = [name |-> "set_mode", arg |-> mode]
    /\ UNCHANGED eng_vars
    /\ UNCHANGED <<system_state, conversation_history, user_preferences, device_states,
                   session_start_time, context_file, now, added, cleared>>

get_mode == current_mode

update_system_state(component, state) ==
    /\ system_state' =
          DictMerge(system_state, component :> DictMerge(state, [last_updated |-> now]))
    /\ last_activity' = _update_activity(now)
    /\ op' = [name |-> "update_system_state", arg |-> component, state |-> state]
    /\ UNCHANGED eng_vars
    /\ UNCHANGED <<current_mode, conversation_history, user_preferences, device_states,
                   session_start_time, context_file, now, added, cleared, mode_req>>

get_system_state(component) == DictGet(system_state, component, EmptyDict)

\* add_conversation_entry: the list after the append is cut to its last 100
KeepOldest(h) == IF Len(h) > HistoryLimit THEN SubSeq(h, 1, HistoryLimit) ELSE h
KeepRecent(h) ==
    IF Len(h) > HistoryLimit THEN SubSeq(h, Len(h) - HistoryLimit + 1, Len(h)) ELSE h

add_conversation_entry(entry) ==
    /\ conversation_history' =
          KeepRecent(Append(conversation_history, DictMerge(entry, [timestamp |-> now])))
    /\ last_activity' = _update_activity(now)
    /\ added' = added + 1
    /\ op' = [name |-> "add_conversation_entry", arg |-> ""]
    /\ UNCHANGED eng_vars
    /\ UNCHANGED <<current_mode, system_state, user_preferences, device_states,
                   session_start_time, context_file, now, cleared, mode_req>>

\* update_device_state
KnowsDeviceWrong(device) == TRUE
KnowsDevice(device) == device \in DOMAIN device_states

update_device_state(device, state) ==
    /\ IF KnowsDevice(device)
       THEN /\ device_states' =
                  DictMerge(device_states,
                            device :> DictMerge(DictMerge(DictGet(device_states, device, EmptyDict),
                                                          state),
                                                [last_updated |-> now]))
            /\ last_activity' = _update_activity(now)
       ELSE UNCHANGED <<device_states, last_activity>>
    /\ op' = [name |-> "update_device_state", arg |-> device]
    /\ UNCHANGED eng_vars
    /\ UNCHANGED <<current_mode, system_state, conversation_history, user_preferences,
                   session_start_time, context_file, now, added, cleared, mode_req>>

\* get_device_state and is_device_connected, read from the mapping `states`
DeviceStateIn(states, device) == DictGet(states, device, EmptyDict)
DeviceConnectedIn(states, device) == DictGet(DeviceStateIn(states, device), "connected", FALSE)
get_device_state(device) == DeviceStateIn(device_states, device)
is_device_connected(device) == DeviceConnectedIn(device_states, device)

set_user_preference(key, value) ==
    /\ user_preferences' = DictMerge(user_preferences, key :> value)
    /\ last_activity' = _update_activity(now)
    /\ op' = [name |-> "set_user_preference", arg |-> key]
    /\ UNCHANGED eng_vars
    /\ UNCHANGED <<current_mode, system_state, conversation_history, device_states,
                   session_start_time, context_file, now, added, cleared, mode_req>>

get_user_preference(key, default) == DictGet(user_preferences, key, default)

\* cleanup_old_data: entries stamped within the last 24 hours stay
IsRecent(entry) == entry.timestamp > now - CleanupHours

cleanup_old_data ==
    /\ conversation_history' = SelectSeq(conversation_history, IsRecent)
    /\ cleared' = TRUE
    /\ op' = [name |-> "cleanup_old_data", arg |-> ""]
    /\ UNCHANGED eng_vars
    /\ UNCHANGED <<current_mode, system_state, user_preferences, device_states,
                   session_start_time, last_activity, context_file, now, added, mode_req>>

ResetSessionClearsState ==
    /\ conversation_history' = <<>>
    /\ system_state' = EmptyDict
    /\ session_start_time' = now
    /\ last_activity' = now
    /\ cleared' = TRUE
    /\ op' = [name |-> "reset_session", arg |-> ""]
    /\ UNCHANGED eng_vars
    /\ UNCHANGED <<current_mode, user_preferences, device_states,
                   context_file, now, added, mode_req>>
reset_session ==
    /\ conversation_history' = <<>>
    /\ session_start_time' = now
    /\ last_activity' = now
    /\ cleared' = TRUE
    /\ op' = [name |-> "reset_session", arg |-> ""]
    /\ UNCHANGED eng_vars
    /\ UNCHANGED <<current_mode, system_state, user_preferences, device_states,
                   context_file, now, added, mode_req>>

\* the clock moves on between two operations
Tick ==
    /\ now + TickStep <= MaxTime
    /\ now' = now + TickStep
    /\ op' = [name |-> "tick", arg |-> ""]
    /\ UNCHANGED eng_vars
    /\ UNCHANGED <<ctx_data, context_file, added, cleared, mode_req>>

\* =========================================================================
\* Text: a Python str is a sequence of one-character strings
\* =========================================================================
\* BEGIN TextTable
\* (the pairs are joined as a balanced tree of @@)
TextTable ==
    (
     (
      (
       (
        (
         (
          (
           (
            (" " :> <<" ">>)
            @@
            ("  Move   UGV\tLEFT! " :> <<" ", " ", "M", "o", "v", "e", " ", " ", " ", "U", "G", "V", "\t", "L", "E", "F", "T", "!", " ">>)
           )
           @@
           (
            (" command executed" :> <<" ", "c", "o", "m", "m", "a", "n", "d", " ", "e", "x", "e", "c", "u", "t", "e", "d">>)
            @@
            (
             (" from Wikipedia. " :> <<" ", "f", "r", "o", "m", " ", "W", "i", "k", "i", "p", "e", "d", "i", "a", ".", " ">>)
             @@
             (" mode" :> <<" ", "m", "o", "d", "e">>)
            )
           )
          )
          @@
          (
           (
            (" things so far. Sources: " :> <<" ", "t", "h", "i", "n", "g", "s", " ", "s", "o", " ", "f", "a", "r", ".", " ", "S", "o", "u", "r", "c", "e", "s", ":", " ">>)
            @@
            (
             ("'" :> <<"'">>)
             @@
             ("'. Let me remember this query for future learning." :> <<"'", ".", " ", "L", "e", "t", " ", "m", "e", " ", "r", "e", "m", "e", "m", "b", "e", "r", " ", "t", "h", "i", "s", " ", "q", "u", "e", "r", "y", " ", "f", "o", "r", " ", "f", "u", "t", "u", "r", "e", " ", "l", "e", "a", "r", "n", "i", "n", "g", ".">>)
            )
           )
           @@
           (
            ("': " :> <<"'", ":", " ">>)
            @@
            (
             ("'NoneType' object has no attribute 'lower'" :> <<"'", "N", "o", "n", "e", "T", "y", "p", "e", "'", " ", "o", "b", "j", "e", "c", "t", " ", "h", "a", "s", " ", "n", "o", " ", "a", "t", "t", "r", "i", "b", "u", "t", "e", " ", "'", "l", "o", "w", "e", "r", "'">>)
             @@
             ("'int' object is not subscriptable" :> <<"'", "i", "n", "t", "'", " ", "o", "b", "j", "e", "c", "t", " ", "i", "s", " ", "n", "o", "t", " ", "s", "u", "b", "s", "c", "r", "i", "p", "t", "a", "b", "l", "e">>)
            )
           )
          )
         )
         @@
         (
          (
           (
            (") = " :> <<")", " ", "=", " ">>)
            @@
            (
             ("," :> <<",">>)
             @@
             (", " :> <<",", " ">>)
            )
           )
           @@
           (
            ("-" :> <<"-">>)
            @@
            (
             ("." :> <<".">>)
             @@
             (". " :> <<".", " ">>)
            )
           )
          )
          @@
          (
           (
            ("..." :> <<".", ".", ".">>)
            @@
            (
             ("0" :> <<"0">>)
             @@
             ("1" :> <<"1">>)
            )
           )
           @@
           (
            ("2" :> <<"2">>)
            @@
            (
             ("3" :> <<"3">>)
             @@
             ("4" :> <<"4">>)
            )
           )
          )
         )
        )
        @@
        (
         (
          (
           (
            ("5" :> <<"5">>)
            @@
            ("6" :> <<"6">>)
           )
           @@
           (
            ("7" :> <<"7">>)
            @@
            (
             ("8" :> <<"8">>)
             @@
             ("9" :> <<"9">>)
            )
           )
          )
          @@
          (
           (
            (":" :> <<":">>)
            @@
            (
             (": " :> <<":", " ">>)
             @@
             (":00:00" :> <<":", "0", "0", ":", "0", "0">>)
            )
           )
           @@
           (
            ("<None>" :> <<"<", "N", "o", "n", "e", ">">>)
            @@
            (
             ("AI" :> <<"A", "I">>)
             @@
             ("Available commands: system status, TRINETRA control, KRAIT-3 control, voice commands, ask about anything" :> <<"A", "v", "a", "i", "l", "a", "b", "l", "e", " ", "c", "o", "m", "m", "a", "n", "d", "s", ":", " ", "s", "y", "s", "t", "e", "m", " ", "s", "t", "a", "t", "u", "s", ",", " ", "T", "R", "I", "N", "E", "T", "R", "A", " ", "c", "o", "n", "t", "r", "o", "l", ",", " ", "K", "R", "A", "I", "T", "-", "3", " ", "c", "o", "n", "t", "r", "o", "l", ",", " ", "v", "o", "i", "c", "e", " ", "c", "o", "m", "m", "a", "n", "d", "s", ",", " ", "a", "s", "k", " ", "a", "b", "o", "u", "t", " ", "a", "n", "y", "t", "h", "i", "n", "g">>)
            )
           )
          )
         )
         @@
         (
          (
           (
            ("Command processing failed" :> <<"C", "o", "m", "m", "a", "n", "d", " ", "p", "r", "o", "c", "e", "s", "s", "i", "n", "g", " ", "f", "a", "i", "l", "e", "d">>)
            @@
            (
             ("Command received. I can help with system control, or you can ask me questions to help me learn." :> <<"C", "o", "m", "m", "a", "n", "d", " ", "r", "e", "c", "e", "i", "v", "e", "d", ".", " ", "I", " ", "c", "a", "n", " ", "h", "e", "l", "p", " ", "w", "i", "t", "h", " ", "s", "y", "s", "t", "e", "m", " ", "c", "o", "n", "t", "r", "o", "l", ",", " ", "o", "r", " ", "y", "o", "u", " ", "c", "a", "n", " ", "a", "s", "k", " ", "m", "e", " ", "q", "u", "e", "s", "t", "i", "o", "n", "s", " ", "t", "o", " ", "h", "e", "l", "p", " ", "m", "e", " ", "l", "e", "a", "r", "n", ".">>)
             @@
             ("Current weather in " :> <<"C", "u", "r", "r", "e", "n", "t", " ", "w", "e", "a", "t", "h", "e", "r", " ", "i", "n", " ">>)
            )
           )
           @@
           (
            ("Explain!" :> <<"E", "x", "p", "l", "a", "i", "n", "!">>)
            @@
            (
             ("Goodbye Commander. LYRA 3.0 standing by." :> <<"G", "o", "o", "d", "b", "y", "e", " ", "C", "o", "m", "m", "a", "n", "d", "e", "r", ".", " ", "L", "Y", "R", "A", " ", "3", ".", "0", " ", "s", "t", "a", "n", "d", "i", "n", "g", " ", "b", "y", ".">>)
             @@
             ("Hello Commander. LYRA 3.0 is ready for your commands." :> <<"H", "e", "l", "l", "o", " ", "C", "o", "m", "m", "a", "n", "d", "e", "r", ".", " ", "L", "Y", "R", "A", " ", "3", ".", "0", " ", "i", "s", " ", "r", "e", "a", "d", "y", " ", "f", "o", "r", " ", "y", "o", "u", "r", " ", "c", "o", "m", "m", "a", "n", "d", "s", ".">>)
            )
           )
          )
          @@
          (
           (
            ("Hello LYRA" :> <<"H", "e", "l", "l", "o", " ", "L", "Y", "R", "A">>)
            @@
            (
             ("Help" :> <<"H", "e", "l", "p">>)
             @@
             ("I already know about " :> <<"I", " ", "a", "l", "r", "e", "a", "d", "y", " ", "k", "n", "o", "w", " ", "a", "b", "o", "u", "t", " ">>)
            )
           )
           @@
           (
            ("I couldn't find information about '" :> <<"I", " ", "c", "o", "u", "l", "d", "n", "'", "t", " ", "f", "i", "n", "d", " ", "i", "n", "f", "o", "r", "m", "a", "t", "i", "o", "n", " ", "a", "b", "o", "u", "t", " ", "'">>)
            @@
            (
             ("I encountered an error while searching for '" :> <<"I", " ", "e", "n", "c", "o", "u", "n", "t", "e", "r", "e", "d", " ", "a", "n", " ", "e", "r", "r", "o", "r", " ", "w", "h", "i", "l", "e", " ", "s", "e", "a", "r", "c", "h", "i", "n", "g", " ", "f", "o", "r", " ", "'">>)
             @@
             ("I found this in my knowledge base: " :> <<"I", " ", "f", "o", "u", "n", "d", " ", "t", "h", "i", "s", " ", "i", "n", " ", "m", "y", " ", "k", "n", "o", "w", "l", "e", "d", "g", "e", " ", "b", "a", "s", "e", ":", " ">>)
            )
           )
          )
         )
        )
       )
       @@
       (
        (
         (
          (
           (
            ("I have learned " :> <<"I", " ", "h", "a", "v", "e", " ", "l", "e", "a", "r", "n", "e", "d", " ">>)
            @@
            ("I learned about " :> <<"I", " ", "l", "e", "a", "r", "n", "e", "d", " ", "a", "b", "o", "u", "t", " ">>)
           )
           @@
           (
            ("Intent not recognized" :> <<"I", "n", "t", "e", "n", "t", " ", "n", "o", "t", " ", "r", "e", "c", "o", "g", "n", "i", "z", "e", "d">>)
            @@
            (
             ("KRAIT-3 " :> <<"K", "R", "A", "I", "T", "-", "3", " ">>)
             @@
             ("KRAIT-3 launch" :> <<"K", "R", "A", "I", "T", "-", "3", " ", "l", "a", "u", "n", "c", "h">>)
            )
           )
          )
          @@
          (
           (
            ("KRAIT-3 launch - Control UAV" :> <<"K", "R", "A", "I", "T", "-", "3", " ", "l", "a", "u", "n", "c", "h", " ", "-", " ", "C", "o", "n", "t", "r", "o", "l", " ", "U", "A", "V">>)
            @@
            (
             ("KRAIT-3 navigation initiated" :> <<"K", "R", "A", "I", "T", "-", "3", " ", "n", "a", "v", "i", "g", "a", "t", "i", "o", "n", " ", "i", "n", "i", "t", "i", "a", "t", "e", "d">>)
             @@
             ("KRAIT-3 status requested" :> <<"K", "R", "A", "I", "T", "-", "3", " ", "s", "t", "a", "t", "u", "s", " ", "r", "e", "q", "u", "e", "s", "t", "e", "d">>)
            )
           )
           @@
           (
            ("Launch KRAIT-3" :> <<"L", "a", "u", "n", "c", "h", " ", "K", "R", "A", "I", "T", "-", "3">>)
            @@
            (
             ("London" :> <<"L", "o", "n", "d", "o", "n">>)
             @@
             ("Move TRINETRA forward" :> <<"M", "o", "v", "e", " ", "T", "R", "I", "N", "E", "T", "R", "A", " ", "f", "o", "r", "w", "a", "r", "d">>)
            )
           )
          )
         )
         @@
         (
          (
           (
            ("None" :> <<"N", "o", "n", "e">>)
            @@
            (
             ("None yet" :> <<"N", "o", "n", "e", " ", "y", "e", "t">>)
             @@
             ("Please specify what you would like to know about." :> <<"P", "l", "e", "a", "s", "e", " ", "s", "p", "e", "c", "i", "f", "y", " ", "w", "h", "a", "t", " ", "y", "o", "u", " ", "w", "o", "u", "l", "d", " ", "l", "i", "k", "e", " ", "t", "o", " ", "k", "n", "o", "w", " ", "a", "b", "o", "u", "t", ".">>)
            )
           )
           @@
           (
            ("RAIN" :> <<"R", "A", "I", "N">>)
            @@
            (
             ("Retrieving system status" :> <<"R", "e", "t", "r", "i", "e", "v", "i", "n", "g", " ", "s", "y", "s", "t", "e", "m", " ", "s", "t", "a", "t", "u", "s">>)
             @@
             ("Scan, area." :> <<"S", "c", "a", "n", ",", " ", "a", "r", "e", "a", ".">>)
            )
           )
          )
          @@
          (
           (
            ("Switch to defense mode" :> <<"S", "w", "i", "t", "c", "h", " ", "t", "o", " ", "d", "e", "f", "e", "n", "s", "e", " ", "m", "o", "d", "e">>)
            @@
            (
             ("Switch to home mode" :> <<"S", "w", "i", "t", "c", "h", " ", "t", "o", " ", "h", "o", "m", "e", " ", "m", "o", "d", "e">>)
             @@
             ("Switch to manual mode" :> <<"S", "w", "i", "t", "c", "h", " ", "t", "o", " ", "m", "a", "n", "u", "a", "l", " ", "m", "o", "d", "e">>)
            )
           )
           @@
           (
            ("Switch to night mode" :> <<"S", "w", "i", "t", "c", "h", " ", "t", "o", " ", "n", "i", "g", "h", "t", " ", "m", "o", "d", "e">>)
            @@
            (
             ("Switching to " :> <<"S", "w", "i", "t", "c", "h", "i", "n", "g", " ", "t", "o", " ">>)
             @@
             ("System check initiated" :> <<"S", "y", "s", "t", "e", "m", " ", "c", "h", "e", "c", "k", " ", "i", "n", "i", "t", "i", "a", "t", "e", "d">>)
            )
           )
          )
         )
        )
        @@
        (
         (
          (
           (
            ("System status" :> <<"S", "y", "s", "t", "e", "m", " ", "s", "t", "a", "t", "u", "s">>)
            @@
            ("TRINETRA camera activated" :> <<"T", "R", "I", "N", "E", "T", "R", "A", " ", "c", "a", "m", "e", "r", "a", " ", "a", "c", "t", "i", "v", "a", "t", "e", "d">>)
           )
           @@
           (
            ("TRINETRA move forward" :> <<"T", "R", "I", "N", "E", "T", "R", "A", " ", "m", "o", "v", "e", " ", "f", "o", "r", "w", "a", "r", "d">>)
            @@
            (
             ("TRINETRA move forward - Control ground bot" :> <<"T", "R", "I", "N", "E", "T", "R", "A", " ", "m", "o", "v", "e", " ", "f", "o", "r", "w", "a", "r", "d", " ", "-", " ", "C", "o", "n", "t", "r", "o", "l", " ", "g", "r", "o", "u", "n", "d", " ", "b", "o", "t">>)
             @@
             ("TRINETRA moving " :> <<"T", "R", "I", "N", "E", "T", "R", "A", " ", "m", "o", "v", "i", "n", "g", " ">>)
            )
           )
          )
          @@
          (
           (
            ("TRINETRA patrol mode activated" :> <<"T", "R", "I", "N", "E", "T", "R", "A", " ", "p", "a", "t", "r", "o", "l", " ", "m", "o", "d", "e", " ", "a", "c", "t", "i", "v", "a", "t", "e", "d">>)
            @@
            (
             ("TRINETRA status requested" :> <<"T", "R", "I", "N", "E", "T", "R", "A", " ", "s", "t", "a", "t", "u", "s", " ", "r", "e", "q", "u", "e", "s", "t", "e", "d">>)
             @@
             ("Thank you" :> <<"T", "h", "a", "n", "k", " ", "y", "o", "u">>)
            )
           )
           @@
           (
            ("Train" :> <<"T", "r", "a", "i", "n">>)
            @@
            (
             ("Try asking \"what is artificial intelligence\" or \"help\" for available commands" :> <<"T", "r", "y", " ", "a", "s", "k", "i", "n", "g", " ", "\"", "w", "h", "a", "t", " ", "i", "s", " ", "a", "r", "t", "i", "f", "i", "c", "i", "a", "l", " ", "i", "n", "t", "e", "l", "l", "i", "g", "e", "n", "c", "e", "\"", " ", "o", "r", " ", "\"", "h", "e", "l", "p", "\"", " ", "f", "o", "r", " ", "a", "v", "a", "i", "l", "a", "b", "l", "e", " ", "c", "o", "m", "m", "a", "n", "d", "s">>)
             @@
             ("Try asking for help or status" :> <<"T", "r", "y", " ", "a", "s", "k", "i", "n", "g", " ", "f", "o", "r", " ", "h", "e", "l", "p", " ", "o", "r", " ", "s", "t", "a", "t", "u", "s">>)
            )
           )
          )
         )
         @@
         (
          (
           (
            ("Voice recognition started" :> <<"V", "o", "i", "c", "e", " ", "r", "e", "c", "o", "g", "n", "i", "t", "i", "o", "n", " ", "s", "t", "a", "r", "t", "e", "d">>)
            @@
            (
             ("Voice recognition stopped" :> <<"V", "o", "i", "c", "e", " ", "r", "e", "c", "o", "g", "n", "i", "t", "i", "o", "n", " ", "s", "t", "o", "p", "p", "e", "d">>)
             @@
             ("Voice system status" :> <<"V", "o", "i", "c", "e", " ", "s", "y", "s", "t", "e", "m", " ", "s", "t", "a", "t", "u", "s">>)
            )
           )
           @@
           (
            ("Weather API not configured. Please add OpenWeatherMap API key." :> <<"W", "e", "a", "t", "h", "e", "r", " ", "A", "P", "I", " ", "n", "o", "t", " ", "c", "o", "n", "f", "i", "g", "u", "r", "e", "d", ".", " ", "P", "l", "e", "a", "s", "e", " ", "a", "d", "d", " ", "O", "p", "e", "n", "W", "e", "a", "t", "h", "e", "r", "M", "a", "p", " ", "A", "P", "I", " ", "k", "e", "y", ".">>)
            @@
            (
             ("Weather data not found for " :> <<"W", "e", "a", "t", "h", "e", "r", " ", "d", "a", "t", "a", " ", "n", "o", "t", " ", "f", "o", "u", "n", "d", " ", "f", "o", "r", " ">>)
             @@
             ("Weather lookup failed: " :> <<"W", "e", "a", "t", "h", "e", "r", " ", "l", "o", "o", "k", "u", "p", " ", "f", "a", "i", "l", "e", "d", ":", " ">>)
            )
           )
          )
          @@
          (
           (
            ("What is AI?" :> <<"W", "h", "a", "t", " ", "i", "s", " ", "A", "I", "?">>)
            @@
            (
             ("You are welcome, Commander." :> <<"Y", "o", "u", " ", "a", "r", "e", " ", "w", "e", "l", "c", "o", "m", "e", ",", " ", "C", "o", "m", "m", "a", "n", "d", "e", "r", ".">>)
             @@
             ("\"" :> <<"\"">>)
            )
           )
           @@
           (
            ("\n" :> <<"\n">>)
            @@
            (
             ("\t" :> <<"\t">>)
             @@
             ("_" :> <<"_">>)
            )
           )
          )
         )
        )
       )
      )
      @@
      (
       (
        (
         (
          (
           (
            ("_store_knowledge" :> <<"_", "s", "t", "o", "r", "e", "_", "k", "n", "o", "w", "l", "e", "d", "g", "e">>)
            @@
            ("a" :> <<"a">>)
           )
           @@
           (
            ("a ! b" :> <<"a", " ", "!", " ", "b">>)
            @@
            (
             ("a field of study" :> <<"a", " ", "f", "i", "e", "l", "d", " ", "o", "f", " ", "s", "t", "u", "d", "y">>)
             @@
             ("access_count" :> <<"a", "c", "c", "e", "s", "s", "_", "c", "o", "u", "n", "t">>)
            )
           )
          )
          @@
          (
           (
            ("acknowledge" :> <<"a", "c", "k", "n", "o", "w", "l", "e", "d", "g", "e">>)
            @@
            (
             ("action" :> <<"a", "c", "t", "i", "o", "n">>)
             @@
             ("add_conversation_entry" :> <<"a", "d", "d", "_", "c", "o", "n", "v", "e", "r", "s", "a", "t", "i", "o", "n", "_", "e", "n", "t", "r", "y">>)
            )
           )
           @@
           (
            ("add_custom_pattern" :> <<"a", "d", "d", "_", "c", "u", "s", "t", "o", "m", "_", "p", "a", "t", "t", "e", "r", "n">>)
            @@
            (
             ("ai" :> <<"a", "i">>)
             @@
             ("air" :> <<"a", "i", "r">>)
            )
           )
          )
         )
         @@
         (
          (
           (
            ("alt" :> <<"a", "l", "t">>)
            @@
            (
             ("altitude" :> <<"a", "l", "t", "i", "t", "u", "d", "e">>)
             @@
             ("assist" :> <<"a", "s", "s", "i", "s", "t">>)
            )
           )
           @@
           (
            ("b" :> <<"b">>)
            @@
            (
             ("backward" :> <<"b", "a", "c", "k", "w", "a", "r", "d">>)
             @@
             ("boolean" :> <<"b", "o", "o", "l", "e", "a", "n">>)
            )
           )
          )
          @@
          (
           (
            ("bot" :> <<"b", "o", "t">>)
            @@
            (
             ("bye" :> <<"b", "y", "e">>)
             @@
             ("bye explain weather" :> <<"b", "y", "e", " ", "e", "x", "p", "l", "a", "i", "n", " ", "w", "e", "a", "t", "h", "e", "r">>)
            )
           )
           @@
           (
            ("c" :> <<"c">>)
            @@
            (
             ("camera" :> <<"c", "a", "m", "e", "r", "a">>)
             @@
             ("change" :> <<"c", "h", "a", "n", "g", "e">>)
            )
           )
          )
         )
        )
        @@
        (
         (
          (
           (
            ("change_mode" :> <<"c", "h", "a", "n", "g", "e", "_", "m", "o", "d", "e">>)
            @@
            ("check" :> <<"c", "h", "e", "c", "k">>)
           )
           @@
           (
            ("city" :> <<"c", "i", "t", "y">>)
            @@
            (
             ("cleanup_old_data" :> <<"c", "l", "e", "a", "n", "u", "p", "_", "o", "l", "d", "_", "d", "a", "t", "a">>)
             @@
             ("configure_api" :> <<"c", "o", "n", "f", "i", "g", "u", "r", "e", "_", "a", "p", "i">>)
            )
           )
          )
          @@
          (
           (
            ("connected" :> <<"c", "o", "n", "n", "e", "c", "t", "e", "d">>)
            @@
            (
             ("construct" :> <<"c", "o", "n", "s", "t", "r", "u", "c", "t">>)
             @@
             ("construct_cache" :> <<"c", "o", "n", "s", "t", "r", "u", "c", "t", "_", "c", "a", "c", "h", "e">>)
            )
           )
           @@
           (
            ("construct_engine" :> <<"c", "o", "n", "s", "t", "r", "u", "c", "t", "_", "e", "n", "g", "i", "n", "e">>)
            @@
            (
             ("conversation" :> <<"c", "o", "n", "v", "e", "r", "s", "a", "t", "i", "o", "n">>)
             @@
             ("conversation_" :> <<"c", "o", "n", "v", "e", "r", "s", "a", "t", "i", "o", "n", "_">>)
            )
           )
          )
         )
         @@
         (
          (
           (
            ("coordinates" :> <<"c", "o", "o", "r", "d", "i", "n", "a", "t", "e", "s">>)
            @@
            (
             ("cpu" :> <<"c", "p", "u">>)
             @@
             ("custom" :> <<"c", "u", "s", "t", "o", "m">>)
            )
           )
           @@
           (
            ("d" :> <<"d">>)
            @@
            (
             ("data" :> <<"d", "a", "t", "a">>)
             @@
             ("default" :> <<"d", "e", "f", "a", "u", "l", "t">>)
            )
           )
          )
          @@
          (
           (
            ("defense" :> <<"d", "e", "f", "e", "n", "s", "e">>)
            @@
            (
             ("description" :> <<"d", "e", "s", "c", "r", "i", "p", "t", "i", "o", "n">>)
             @@
             ("device_states" :> <<"d", "e", "v", "i", "c", "e", "_", "s", "t", "a", "t", "e", "s">>)
            )
           )
           @@
           (
            ("directions" :> <<"d", "i", "r", "e", "c", "t", "i", "o", "n", "s">>)
            @@
            (
             ("disabled" :> <<"d", "i", "s", "a", "b", "l", "e", "d">>)
             @@
             ("disk" :> <<"d", "i", "s", "k">>)
            )
           )
          )
         )
        )
       )
       @@
       (
        (
         (
          (
           (
            ("doc" :> <<"d", "o", "c">>)
            @@
            ("down" :> <<"d", "o", "w", "n">>)
           )
           @@
           (
            ("drone" :> <<"d", "r", "o", "n", "e">>)
            @@
            (
             ("drone waypoint -3, 4" :> <<"d", "r", "o", "n", "e", " ", "w", "a", "y", "p", "o", "i", "n", "t", " ", "-", "3", ",", " ", "4">>)
             @@
             ("e" :> <<"e">>)
            )
           )
          )
          @@
          (
           (
            ("east" :> <<"e", "a", "s", "t">>)
            @@
            (
             ("error" :> <<"e", "r", "r", "o", "r">>)
             @@
             ("exception" :> <<"e", "x", "c", "e", "p", "t", "i", "o", "n">>)
            )
           )
           @@
           (
            ("exit" :> <<"e", "x", "i", "t">>)
            @@
            (
             ("explain" :> <<"e", "x", "p", "l", "a", "i", "n">>)
             @@
             ("extract" :> <<"e", "x", "t", "r", "a", "c", "t">>)
            )
           )
          )
         )
         @@
         (
          (
           (
            ("f" :> <<"f">>)
            @@
            (
             ("field" :> <<"f", "i", "e", "l", "d">>)
             @@
             ("fire" :> <<"f", "i", "r", "e">>)
            )
           )
           @@
           (
            ("fly" :> <<"f", "l", "y">>)
            @@
            (
             ("forward" :> <<"f", "o", "r", "w", "a", "r", "d">>)
             @@
             ("g" :> <<"g">>)
            )
           )
          )
          @@
          (
           (
            ("gap" :> <<"g", "a", "p">>)
            @@
            (
             ("gas" :> <<"g", "a", "s">>)
             @@
             ("general" :> <<"g", "e", "n", "e", "r", "a", "l">>)
            )
           )
           @@
           (
            ("get_knowledge_stats" :> <<"g", "e", "t", "_", "k", "n", "o", "w", "l", "e", "d", "g", "e", "_", "s", "t", "a", "t", "s">>)
            @@
            (
             ("get_system_status" :> <<"g", "e", "t", "_", "s", "y", "s", "t", "e", "m", "_", "s", "t", "a", "t", "u", "s">>)
             @@
             ("get_weather_info" :> <<"g", "e", "t", "_", "w", "e", "a", "t", "h", "e", "r", "_", "i", "n", "f", "o">>)
            )
           )
          )
         )
        )
        @@
        (
         (
          (
           (
            ("goodbye" :> <<"g", "o", "o", "d", "b", "y", "e">>)
            @@
            ("goto" :> <<"g", "o", "t", "o">>)
           )
           @@
           (
            ("greeting" :> <<"g", "r", "e", "e", "t", "i", "n", "g">>)
            @@
            (
             ("greetings" :> <<"g", "r", "e", "e", "t", "i", "n", "g", "s">>)
             @@
             ("ground" :> <<"g", "r", "o", "u", "n", "d">>)
            )
           )
          )
          @@
          (
           (
            ("h" :> <<"h">>)
            @@
            (
             ("health" :> <<"h", "e", "a", "l", "t", "h">>)
             @@
             ("height" :> <<"h", "e", "i", "g", "h", "t">>)
            )
           )
           @@
           (
            ("hello" :> <<"h", "e", "l", "l", "o">>)
            @@
            (
             ("hello LYRA" :> <<"h", "e", "l", "l", "o", " ", "L", "Y", "R", "A">>)
             @@
             ("hello what is help" :> <<"h", "e", "l", "l", "o", " ", "w", "h", "a", "t", " ", "i", "s", " ", "h", "e", "l", "p">>)
            )
           )
          )
         )
         @@
         (
          (
           (
            ("help" :> <<"h", "e", "l", "p">>)
            @@
            (
             ("help thanks" :> <<"h", "e", "l", "p", " ", "t", "h", "a", "n", "k", "s">>)
             @@
             ("hey" :> <<"h", "e", "y">>)
            )
           )
           @@
           (
            ("hi" :> <<"h", "i">>)
            @@
            (
             ("high" :> <<"h", "i", "g", "h">>)
             @@
             ("home" :> <<"h", "o", "m", "e">>)
            )
           )
          )
          @@
          (
           (
            ("hover" :> <<"h", "o", "v", "e", "r">>)
            @@
            (
             ("https://en.wikipedia.org/wiki/AI" :> <<"h", "t", "t", "p", "s", ":", "/", "/", "e", "n", ".", "w", "i", "k", "i", "p", "e", "d", "i", "a", ".", "o", "r", "g", "/", "w", "i", "k", "i", "/", "A", "I">>)
             @@
             ("humidity" :> <<"h", "u", "m", "i", "d", "i", "t", "y">>)
            )
           )
           @@
           (
            ("i" :> <<"i">>)
            @@
            (
             ("in" :> <<"i", "n">>)
             @@
             ("int" :> <<"i", "n", "t">>)
            )
           )
          )
         )
        )
       )
      )
     )
     @@
     (
      (
       (
        (
         (
          (
           (
            ("invalid" :> <<"i", "n", "v", "a", "l", "i", "d">>)
            @@
            ("j" :> <<"j">>)
           )
           @@
           (
            ("k" :> <<"k">>)
            @@
            (
             ("key" :> <<"k", "e", "y">>)
             @@
             ("knowledge" :> <<"k", "n", "o", "w", "l", "e", "d", "g", "e">>)
            )
           )
          )
          @@
          (
           (
            ("knowledge stats" :> <<"k", "n", "o", "w", "l", "e", "d", "g", "e", " ", "s", "t", "a", "t", "s">>)
            @@
            (
             ("knowledge stats - See what I have learned" :> <<"k", "n", "o", "w", "l", "e", "d", "g", "e", " ", "s", "t", "a", "t", "s", " ", "-", " ", "S", "e", "e", " ", "w", "h", "a", "t", " ", "I", " ", "h", "a", "v", "e", " ", "l", "e", "a", "r", "n", "e", "d">>)
             @@
             ("knowledge stats field" :> <<"k", "n", "o", "w", "l", "e", "d", "g", "e", " ", "s", "t", "a", "t", "s", " ", "f", "i", "e", "l", "d">>)
            )
           )
           @@
           (
            ("knowledge_base" :> <<"k", "n", "o", "w", "l", "e", "d", "g", "e", "_", "b", "a", "s", "e">>)
            @@
            (
             ("knowledge_query" :> <<"k", "n", "o", "w", "l", "e", "d", "g", "e", "_", "q", "u", "e", "r", "y">>)
             @@
             ("knowledge_recall" :> <<"k", "n", "o", "w", "l", "e", "d", "g", "e", "_", "r", "e", "c", "a", "l", "l">>)
            )
           )
          )
         )
         @@
         (
          (
           (
            ("knowledge_stats" :> <<"k", "n", "o", "w", "l", "e", "d", "g", "e", "_", "s", "t", "a", "t", "s">>)
            @@
            (
             ("krait" :> <<"k", "r", "a", "i", "t">>)
             @@
             ("krait3" :> <<"k", "r", "a", "i", "t", "3">>)
            )
           )
           @@
           (
            ("krait3_control" :> <<"k", "r", "a", "i", "t", "3", "_", "c", "o", "n", "t", "r", "o", "l">>)
            @@
            (
             ("krait3_flight" :> <<"k", "r", "a", "i", "t", "3", "_", "f", "l", "i", "g", "h", "t">>)
             @@
             ("krait3_navigation" :> <<"k", "r", "a", "i", "t", "3", "_", "n", "a", "v", "i", "g", "a", "t", "i", "o", "n">>)
            )
           )
          )
          @@
          (
           (
            ("krait3_status" :> <<"k", "r", "a", "i", "t", "3", "_", "s", "t", "a", "t", "u", "s">>)
            @@
            (
             ("l" :> <<"l">>)
             @@
             ("land" :> <<"l", "a", "n", "d">>)
            )
           )
           @@
           (
            ("last_updated" :> <<"l", "a", "s", "t", "_", "u", "p", "d", "a", "t", "e", "d">>)
            @@
            (
             ("launch" :> <<"l", "a", "u", "n", "c", "h">>)
             @@
             ("learn_from_conversation" :> <<"l", "e", "a", "r", "n", "_", "f", "r", "o", "m", "_", "c", "o", "n", "v", "e", "r", "s", "a", "t", "i", "o", "n">>)
            )
           )
          )
         )
        )
        @@
        (
         (
          (
           (
            ("learned_at" :> <<"l", "e", "a", "r", "n", "e", "d", "_", "a", "t">>)
            @@
            ("left" :> <<"l", "e", "f", "t">>)
           )
           @@
           (
            ("light" :> <<"l", "i", "g", "h", "t">>)
            @@
            (
             ("light rain" :> <<"l", "i", "g", "h", "t", " ", "r", "a", "i", "n">>)
             @@
             ("listen" :> <<"l", "i", "s", "t", "e", "n">>)
            )
           )
          )
          @@
          (
           (
            ("loud" :> <<"l", "o", "u", "d">>)
            @@
            (
             ("m" :> <<"m">>)
             @@
             ("malformed" :> <<"m", "a", "l", "f", "o", "r", "m", "e", "d">>)
            )
           )
           @@
           (
            ("manual" :> <<"m", "a", "n", "u", "a", "l">>)
            @@
            (
             ("maps" :> <<"m", "a", "p", "s">>)
             @@
             ("medium" :> <<"m", "e", "d", "i", "u", "m">>)
            )
           )
          )
         )
         @@
         (
          (
           (
            ("memory" :> <<"m", "e", "m", "o", "r", "y">>)
            @@
            (
             ("message" :> <<"m", "e", "s", "s", "a", "g", "e">>)
             @@
             ("missing ), unterminated subpattern at position 0" :> <<"m", "i", "s", "s", "i", "n", "g", " ", ")", ",", " ", "u", "n", "t", "e", "r", "m", "i", "n", "a", "t", "e", "d", " ", "s", "u", "b", "p", "a", "t", "t", "e", "r", "n", " ", "a", "t", " ", "p", "o", "s", "i", "t", "i", "o", "n", " ", "0">>)
            )
           )
           @@
           (
            ("mission" :> <<"m", "i", "s", "s", "i", "o", "n">>)
            @@
            (
             ("mode" :> <<"m", "o", "d", "e">>)
             @@
             ("motion" :> <<"m", "o", "t", "i", "o", "n">>)
            )
           )
          )
          @@
          (
           (
            ("move" :> <<"m", "o", "v", "e">>)
            @@
            (
             ("move trinetra forward" :> <<"m", "o", "v", "e", " ", "t", "r", "i", "n", "e", "t", "r", "a", " ", "f", "o", "r", "w", "a", "r", "d">>)
             @@
             ("n" :> <<"n">>)
            )
           )
           @@
           (
            ("navigate" :> <<"n", "a", "v", "i", "g", "a", "t", "e">>)
            @@
            (
             ("navigate to 12.5,77.6" :> <<"n", "a", "v", "i", "g", "a", "t", "e", " ", "t", "o", " ", "1", "2", ".", "5", ",", "7", "7", ".", "6">>)
             @@
             ("night" :> <<"n", "i", "g", "h", "t">>)
            )
           )
          )
         )
        )
       )
       @@
       (
        (
         (
          (
           (
            ("none" :> <<"n", "o", "n", "e">>)
            @@
            ("north" :> <<"n", "o", "r", "t", "h">>)
           )
           @@
           (
            ("not_found" :> <<"n", "o", "t", "_", "f", "o", "u", "n", "d">>)
            @@
            (
             ("nothing" :> <<"n", "o", "t", "h", "i", "n", "g">>)
             @@
             ("number" :> <<"n", "u", "m", "b", "e", "r">>)
            )
           )
          )
          @@
          (
           (
            ("numbers" :> <<"n", "u", "m", "b", "e", "r", "s">>)
            @@
            (
             ("o" :> <<"o">>)
             @@
             ("object" :> <<"o", "b", "j", "e", "c", "t">>)
            )
           )
           @@
           (
            ("offline" :> <<"o", "f", "f", "l", "i", "n", "e">>)
            @@
            (
             ("on" :> <<"o", "n">>)
             @@
             ("online" :> <<"o", "n", "l", "i", "n", "e">>)
            )
           )
          )
         )
         @@
         (
          (
           (
            ("openweather" :> <<"o", "p", "e", "n", "w", "e", "a", "t", "h", "e", "r">>)
            @@
            (
             ("p" :> <<"p">>)
             @@
             ("page" :> <<"p", "a", "g", "e">>)
            )
           )
           @@
           (
            ("paris" :> <<"p", "a", "r", "i", "s">>)
            @@
            (
             ("patrol" :> <<"p", "a", "t", "r", "o", "l">>)
             @@
             ("peer_construct" :> <<"p", "e", "e", "r", "_", "c", "o", "n", "s", "t", "r", "u", "c", "t">>)
            )
           )
          )
          @@
          (
           (
            ("peer_store" :> <<"p", "e", "e", "r", "_", "s", "t", "o", "r", "e">>)
            @@
            (
             ("process_command" :> <<"p", "r", "o", "c", "e", "s", "s", "_", "c", "o", "m", "m", "a", "n", "d">>)
             @@
             ("q" :> <<"q">>)
            )
           )
           @@
           (
            ("quiet" :> <<"q", "u", "i", "e", "t">>)
            @@
            (
             ("quit" :> <<"q", "u", "i", "t">>)
             @@
             ("r" :> <<"r">>)
            )
           )
          )
         )
        )
        @@
        (
         (
          (
           (
            ("rain" :> <<"r", "a", "i", "n">>)
            @@
            ("raised" :> <<"r", "a", "i", "s", "e", "d">>)
           )
           @@
           (
            ("reading" :> <<"r", "e", "a", "d", "i", "n", "g">>)
            @@
            (
             ("reconnaissance" :> <<"r", "e", "c", "o", "n", "n", "a", "i", "s", "s", "a", "n", "c", "e">>)
             @@
             ("record" :> <<"r", "e", "c", "o", "r", "d">>)
            )
           )
          )
          @@
          (
           (
            ("repeat" :> <<"r", "e", "p", "e", "a", "t">>)
            @@
            (
             ("reset_session" :> <<"r", "e", "s", "e", "t", "_", "s", "e", "s", "s", "i", "o", "n">>)
             @@
             ("return" :> <<"r", "e", "t", "u", "r", "n">>)
            )
           )
           @@
           (
            ("right" :> <<"r", "i", "g", "h", "t">>)
            @@
            (
             ("rover" :> <<"r", "o", "v", "e", "r">>)
             @@
             ("s" :> <<"s">>)
            )
           )
          )
         )
         @@
         (
          (
           (
            ("save_context" :> <<"s", "a", "v", "e", "_", "c", "o", "n", "t", "e", "x", "t">>)
            @@
            (
             ("say" :> <<"s", "a", "y">>)
             @@
             ("scan" :> <<"s", "c", "a", "n">>)
            )
           )
           @@
           (
            ("scan area" :> <<"s", "c", "a", "n", " ", "a", "r", "e", "a">>)
            @@
            (
             ("scout" :> <<"s", "c", "o", "u", "t">>)
             @@
             ("search" :> <<"s", "e", "a", "r", "c", "h">>)
            )
           )
          )
          @@
          (
           (
            ("search_and_learn" :> <<"s", "e", "a", "r", "c", "h", "_", "a", "n", "d", "_", "l", "e", "a", "r", "n">>)
            @@
            (
             ("search_local_knowledge" :> <<"s", "e", "a", "r", "c", "h", "_", "l", "o", "c", "a", "l", "_", "k", "n", "o", "w", "l", "e", "d", "g", "e">>)
             @@
             ("sensor" :> <<"s", "e", "n", "s", "o", "r">>)
            )
           )
           @@
           (
            ("set_mode" :> <<"s", "e", "t", "_", "m", "o", "d", "e">>)
            @@
            (
             ("set_user_preference" :> <<"s", "e", "t", "_", "u", "s", "e", "r", "_", "p", "r", "e", "f", "e", "r", "e", "n", "c", "e">>)
             @@
             ("silence" :> <<"s", "i", "l", "e", "n", "c", "e">>)
            )
           )
          )
         )
        )
       )
      )
      @@
      (
       (
        (
         (
          (
           (
            ("snapshot" :> <<"s", "n", "a", "p", "s", "h", "o", "t">>)
            @@
            ("source" :> <<"s", "o", "u", "r", "c", "e">>)
           )
           @@
           (
            ("south" :> <<"s", "o", "u", "t", "h">>)
            @@
            (
             ("speak" :> <<"s", "p", "e", "a", "k">>)
             @@
             ("speech" :> <<"s", "p", "e", "e", "c", "h">>)
            )
           )
          )
          @@
          (
           (
            ("start" :> <<"s", "t", "a", "r", "t">>)
            @@
            (
             ("start listening - Voice recognition" :> <<"s", "t", "a", "r", "t", " ", "l", "i", "s", "t", "e", "n", "i", "n", "g", " ", "-", " ", "V", "o", "i", "c", "e", " ", "r", "e", "c", "o", "g", "n", "i", "t", "i", "o", "n">>)
             @@
             ("status" :> <<"s", "t", "a", "t", "u", "s">>)
            )
           )
           @@
           (
            ("status_404" :> <<"s", "t", "a", "t", "u", "s", "_", "4", "0", "4">>)
            @@
            (
             ("stealth" :> <<"s", "t", "e", "a", "l", "t", "h">>)
             @@
             ("stop" :> <<"s", "t", "o", "p">>)
            )
           )
          )
         )
         @@
         (
          (
           (
            ("stop launch" :> <<"s", "t", "o", "p", " ", "l", "a", "u", "n", "c", "h">>)
            @@
            (
             ("str" :> <<"s", "t", "r">>)
             @@
             ("stream" :> <<"s", "t", "r", "e", "a", "m">>)
            )
           )
           @@
           (
            ("string" :> <<"s", "t", "r", "i", "n", "g">>)
            @@
            (
             ("success" :> <<"s", "u", "c", "c", "e", "s", "s">>)
             @@
             ("summary" :> <<"s", "u", "m", "m", "a", "r", "y">>)
            )
           )
          )
          @@
          (
           (
            ("support" :> <<"s", "u", "p", "p", "o", "r", "t">>)
            @@
            (
             ("surveillance" :> <<"s", "u", "r", "v", "e", "i", "l", "l", "a", "n", "c", "e">>)
             @@
             ("switch" :> <<"s", "w", "i", "t", "c", "h">>)
            )
           )
           @@
           (
            ("switch to" :> <<"s", "w", "i", "t", "c", "h", " ", "t", "o">>)
            @@
            (
             ("switch to " :> <<"s", "w", "i", "t", "c", "h", " ", "t", "o", " ">>)
             @@
             ("switch to manual mode" :> <<"s", "w", "i", "t", "c", "h", " ", "t", "o", " ", "m", "a", "n", "u", "a", "l", " ", "m", "o", "d", "e">>)
            )
           )
          )
         )
        )
        @@
        (
         (
          (
           (
            ("system" :> <<"s", "y", "s", "t", "e", "m">>)
            @@
            ("system status" :> <<"s", "y", "s", "t", "e", "m", " ", "s", "t", "a", "t", "u", "s">>)
           )
           @@
           (
            ("system status - Get system health" :> <<"s", "y", "s", "t", "e", "m", " ", "s", "t", "a", "t", "u", "s", " ", "-", " ", "G", "e", "t", " ", "s", "y", "s", "t", "e", "m", " ", "h", "e", "a", "l", "t", "h">>)
            @@
            (
             ("system_check" :> <<"s", "y", "s", "t", "e", "m", "_", "c", "h", "e", "c", "k">>)
             @@
             ("system_control" :> <<"s", "y", "s", "t", "e", "m", "_", "c", "o", "n", "t", "r", "o", "l">>)
            )
           )
          )
          @@
          (
           (
            ("system_response" :> <<"s", "y", "s", "t", "e", "m", "_", "r", "e", "s", "p", "o", "n", "s", "e">>)
            @@
            (
             ("t" :> <<"t">>)
             @@
             ("takeoff" :> <<"t", "a", "k", "e", "o", "f", "f">>)
            )
           )
           @@
           (
            ("tell me about" :> <<"t", "e", "l", "l", " ", "m", "e", " ", "a", "b", "o", "u", "t">>)
            @@
            (
             ("temperature" :> <<"t", "e", "m", "p", "e", "r", "a", "t", "u", "r", "e">>)
             @@
             ("thank" :> <<"t", "h", "a", "n", "k">>)
            )
           )
          )
         )
         @@
         (
          (
           (
            ("thanks" :> <<"t", "h", "a", "n", "k", "s">>)
            @@
            (
             ("thanks bye" :> <<"t", "h", "a", "n", "k", "s", " ", "b", "y", "e">>)
             @@
             ("this weather" :> <<"t", "h", "i", "s", " ", "w", "e", "a", "t", "h", "e", "r">>)
            )
           )
           @@
           (
            ("tick" :> <<"t", "i", "c", "k">>)
            @@
            (
             ("time" :> <<"t", "i", "m", "e">>)
             @@
             ("timed out" :> <<"t", "i", "m", "e", "d", " ", "o", "u", "t">>)
            )
           )
          )
          @@
          (
           (
            ("timestamp" :> <<"t", "i", "m", "e", "s", "t", "a", "m", "p">>)
            @@
            (
             ("title" :> <<"t", "i", "t", "l", "e">>)
             @@
             ("trinetra" :> <<"t", "r", "i", "n", "e", "t", "r", "a">>)
            )
           )
           @@
           (
            ("trinetra_camera" :> <<"t", "r", "i", "n", "e", "t", "r", "a", "_", "c", "a", "m", "e", "r", "a">>)
            @@
            (
             ("trinetra_control" :> <<"t", "r", "i", "n", "e", "t", "r", "a", "_", "c", "o", "n", "t", "r", "o", "l">>)
             @@
             ("trinetra_mission" :> <<"t", "r", "i", "n", "e", "t", "r", "a", "_", "m", "i", "s", "s", "i", "o", "n">>)
            )
           )
          )
         )
        )
       )
       @@
       (
        (
         (
          (
           (
            ("trinetra_move" :> <<"t", "r", "i", "n", "e", "t", "r", "a", "_", "m", "o", "v", "e">>)
            @@
            ("trinetra_status" :> <<"t", "r", "i", "n", "e", "t", "r", "a", "_", "s", "t", "a", "t", "u", "s">>)
           )
           @@
           (
            ("tts" :> <<"t", "t", "s">>)
            @@
            (
             ("type" :> <<"t", "y", "p", "e">>)
             @@
             ("u" :> <<"u">>)
            )
           )
          )
          @@
          (
           (
            ("uav" :> <<"u", "a", "v">>)
            @@
            (
             ("uav navigate north" :> <<"u", "a", "v", " ", "n", "a", "v", "i", "g", "a", "t", "e", " ", "n", "o", "r", "t", "h">>)
             @@
             ("ugv" :> <<"u", "g", "v">>)
            )
           )
           @@
           (
            ("unknown" :> <<"u", "n", "k", "n", "o", "w", "n">>)
            @@
            (
             ("up" :> <<"u", "p">>)
             @@
             ("update_device_state" :> <<"u", "p", "d", "a", "t", "e", "_", "d", "e", "v", "i", "c", "e", "_", "s", "t", "a", "t", "e">>)
            )
           )
          )
         )
         @@
         (
          (
           (
            ("update_system_state" :> <<"u", "p", "d", "a", "t", "e", "_", "s", "y", "s", "t", "e", "m", "_", "s", "t", "a", "t", "e">>)
            @@
            (
             ("url" :> <<"u", "r", "l">>)
             @@
             ("user_input" :> <<"u", "s", "e", "r", "_", "i", "n", "p", "u", "t">>)
            )
           )
           @@
           (
            ("user_preferences" :> <<"u", "s", "e", "r", "_", "p", "r", "e", "f", "e", "r", "e", "n", "c", "e", "s">>)
            @@
            (
             ("v" :> <<"v">>)
             @@
             ("voice" :> <<"v", "o", "i", "c", "e">>)
            )
           )
          )
          @@
          (
           (
            ("voice_control" :> <<"v", "o", "i", "c", "e", "_", "c", "o", "n", "t", "r", "o", "l">>)
            @@
            (
             ("voice_start" :> <<"v", "o", "i", "c", "e", "_", "s", "t", "a", "r", "t">>)
             @@
             ("voice_status" :> <<"v", "o", "i", "c", "e", "_", "s", "t", "a", "t", "u", "s">>)
            )
           )
           @@
           (
            ("voice_stop" :> <<"v", "o", "i", "c", "e", "_", "s", "t", "o", "p">>)
            @@
            (
             ("volume" :> <<"v", "o", "l", "u", "m", "e">>)
             @@
             ("w" :> <<"w">>)
            )
           )
          )
         )
        )
        @@
        (
         (
          (
           (
            ("waypoint" :> <<"w", "a", "y", "p", "o", "i", "n", "t">>)
            @@
            ("weather" :> <<"w", "e", "a", "t", "h", "e", "r">>)
           )
           @@
           (
            ("weather in [city] - Get weather info" :> <<"w", "e", "a", "t", "h", "e", "r", " ", "i", "n", " ", "[", "c", "i", "t", "y", "]", " ", "-", " ", "G", "e", "t", " ", "w", "e", "a", "t", "h", "e", "r", " ", "i", "n", "f", "o">>)
            @@
            (
             ("weather in paris" :> <<"w", "e", "a", "t", "h", "e", "r", " ", "i", "n", " ", "p", "a", "r", "i", "s">>)
             @@
             ("weather knowledge stats" :> <<"w", "e", "a", "t", "h", "e", "r", " ", "k", "n", "o", "w", "l", "e", "d", "g", "e", " ", "s", "t", "a", "t", "s">>)
            )
           )
          )
          @@
          (
           (
            ("weather_" :> <<"w", "e", "a", "t", "h", "e", "r", "_">>)
            @@
            (
             ("weather_paris" :> <<"w", "e", "a", "t", "h", "e", "r", "_", "p", "a", "r", "i", "s">>)
             @@
             ("weather_query" :> <<"w", "e", "a", "t", "h", "e", "r", "_", "q", "u", "e", "r", "y">>)
            )
           )
           @@
           (
            ("west" :> <<"w", "e", "s", "t">>)
            @@
            (
             ("what do you know" :> <<"w", "h", "a", "t", " ", "d", "o", " ", "y", "o", "u", " ", "k", "n", "o", "w">>)
             @@
             ("what is" :> <<"w", "h", "a", "t", " ", "i", "s">>)
            )
           )
          )
         )
         @@
         (
          (
           (
            ("what is [topic] - Learn about topics" :> <<"w", "h", "a", "t", " ", "i", "s", " ", "[", "t", "o", "p", "i", "c", "]", " ", "-", " ", "L", "e", "a", "r", "n", " ", "a", "b", "o", "u", "t", " ", "t", "o", "p", "i", "c", "s">>)
            @@
            (
             ("what is the weather" :> <<"w", "h", "a", "t", " ", "i", "s", " ", "t", "h", "e", " ", "w", "e", "a", "t", "h", "e", "r">>)
             @@
             ("where is" :> <<"w", "h", "e", "r", "e", " ", "i", "s">>)
            )
           )
           @@
           (
            ("who is" :> <<"w", "h", "o", " ", "i", "s">>)
            @@
            (
             ("wikipedia" :> <<"w", "i", "k", "i", "p", "e", "d", "i", "a">>)
             @@
             ("worldbank" :> <<"w", "o", "r", "l", "d", "b", "a", "n", "k">>)
            )
           )
          )
          @@
          (
           (
            ("x" :> <<"x">>)
            @@
            (
             ("y" :> <<"y">>)
             @@
             ("z" :> <<"z">>)
            )
           )
           @@
           (
            ("{" :> <<"{">>)
            @@
            (
             ("}" :> <<"}">>)
             @@
             ("°C, " :> <<"°", "C", ",", " ">>)
            )
           )
          )
         )
        )
       )
      )
     )
    )
\* END TextTable
\* the characters of a string literal
T(lit) == TextTable[lit]

LowerCase ==
    [A |-> "a", B |-> "b", C |-> "c", D |-> "d", E |-> "e", F |-> "f", G |-> "g",
     H |-> "h", I |-> "i", J |-> "j", K |-> "k", L |-> "l", M |-> "m", N |-> "n",
     O |-> "o", P |-> "p", Q |-> "q", R |-> "r", S |-> "s", T |-> "t", U |-> "u",
     V |-> "v", W |-> "w", X |-> "x", Y |-> "y", Z |-> "z"]
Letters == {LowerCase[c] : c \in DOMAIN LowerCase} \cup DOMAIN LowerCase
Digits == {"0", "1", "2", "3", "4", "5", "6", "7", "8", "9"}
\* the classes \s and \w of the re module
IsSpace(c) == c \in {" ", "\t", "\n"}
IsWord(c) == c \in Letters \cup Digits \cup {"_"}

\* Body applied to a value computed once
With(value, Body(_)) == CHOOSE r \in {Body(x) : x \in {value}} : TRUE

SetMin(S) == CHOOSE x \in S : \A y \in S : x <= y
SetMax(S) == CHOOSE x \in S : \A y \in S : x >= y

\* str.lower()
Lower(s) == [i \in 1..Len(s) |-> IF s[i] \in DOMAIN LowerCase THEN LowerCase[s[i]] ELSE s[i]]
\* str.strip()
Strip(s) ==
    LET keep == {i \in 1..Len(s) : ~IsSpace(s[i])}
    IN IF keep = {} THEN <<>> ELSE SubSeq(s, SetMin(keep), SetMax(keep))
\* re.sub(r'\s+', ' ', s)
CollapseSpaces(s) ==
    LET first == SelectSeq([i \in 1..Len(s) |-> i],
                           LAMBDA i : ~IsSpace(s[i]) \/ i = 1 \/ ~IsSpace(s[i - 1]))
    IN [j \in 1..Len(first) |-> IF IsSpace(s[first[j]]) THEN " " ELSE s[first[j]]]
\* re.sub(r'[^\w\s\-\.]', '', s)
RemovePunctuation(s) ==
    SelectSeq(s, LAMBDA c : IsWord(c) \/ IsSpace(c) \/ c \in {"-", "."})

\* w occurs in s at offset i (0-based);  w in s;  s.replace(w, '')
OccursAt(s, w, i) == i + Len(w) <= Len(s) /\ SubSeq(s, i + 1, i + Len(w)) = w
Contains(s, w) == \E i \in 0..(Len(s) - Len(w)) : OccursAt(s, w, i)
Has(s, lit) == Contains(s, T(lit))

\* =========================================================================
\* Decision Engine
\* =========================================================================
\* a regular expression of _load_command_patterns: (?:a|b|c) is Alt({a,b,c}),
\* (?:a|b).+(?:c|d) is Gap({a,b}, {c,d}); Invalid is a pattern re cannot compile
Alt(words) == [kind |-> "alt", first |-> words, second |-> {}]
Gap(a, b) == [kind |-> "gap", first |-> a, second |-> b]
InvalidPattern == [kind |-> "invalid", first |-> {}, second |-> {}]

_load_command_patterns == <<
    [name |-> "system_control", patterns |-> <<
        Alt({"status", "health", "system", "check"}),
        Alt({"temperature", "cpu", "memory", "disk"}),
        Gap({"mode", "switch", "change"}, {"defense", "home", "night", "manual"}) >>],
    [name |-> "trinetra_control", patterns |-> <<
        Alt({"trinetra", "ground", "bot", "ugv"}),
        Alt({"move", "forward", "backward", "left", "right", "stop"}),
        Alt({"camera", "stream", "snapshot", "record"}),
        Alt({"patrol", "scout", "search"}),
        Alt({"sensor", "gas", "fire", "motion"}) >>],
    [name |-> "krait3_control", patterns |-> <<
        Alt({"krait", "uav", "drone", "air", "fly"}),
        Alt({"launch", "takeoff", "land", "hover", "return"}),
        Alt({"altitude", "height", "up", "down"}),
        Alt({"waypoint", "navigate", "goto", "coordinates"}),
        Alt({"mission", "reconnaissance", "surveillance"}) >>],
    [name |-> "voice_control", patterns |-> <<
        Alt({"listen", "start", "voice", "speech"}),
        Alt({"stop", "quiet", "silence"}),
        Alt({"repeat", "say", "speak"}),
        Alt({"volume", "loud", "quiet"}) >>],
    [name |-> "general", patterns |-> <<
        Alt({"hello", "hi", "hey", "greetings"}),
        Alt({"help", "assist", "support"}),
        Alt({"thank", "thanks"}),
        Alt({"goodbye", "bye", "exit", "quit"}) >> ] >>

\* re.search(pattern, text): the pattern matches somewhere in the text
Search(pattern, text) ==
    IF pattern.kind = "alt"
    THEN \E w \in pattern.first : Has(text, w)
    ELSE \E a \in pattern.first : \E i \in 0..Len(text) :
            /\ OccursAt(text, T(a), i)
            /\ \E b \in pattern.second : \E k \in (i + Len(T(a)) + 1)..Len(text) :
                   OccursAt(text, T(b), k)

\* a process_command input: a str, or an object that is none
Command(lit) == [kind |-> "str", text |-> T(lit)]
NoneCommand == [kind |-> "none", text |-> <<>>]
NoPending == [kind |-> "nothing", text |-> <<>>]
\* no request was sent to an external source
NoReply == [kind |-> "none"]
NoCall == [command |-> NoneCommand, normalized |-> <<>>, intent |-> "<None>",
           entities |-> <<>>, response |-> <<>>, lookups |-> 0, reply |-> NoReply]

\* an exception leaving a function, and a value returned by it
Raise(description) == [raised |-> TRUE, error |-> description]
Return(value) == [raised |-> FALSE, value |-> value]

\* _normalize_command: a command that is no str has no lower()
NormalizeNoLower(command) ==
    IF command.kind = "str"
    THEN Return(RemovePunctuation(CollapseSpaces(Strip(command.text))))
    ELSE Raise(T("'NoneType' object has no attribute 'lower'"))
_normalize_command(command) ==
    IF command.kind = "str"
    THEN Return(RemovePunctuation(CollapseSpaces(Strip(Lower(command.text)))))
    ELSE Raise(T("'NoneType' object has no attribute 'lower'"))

\* the (category, pattern) pairs in the order the two loops of _extract_intent try them
RECURSIVE PatternOrder(_)
PatternOrder(categories) ==
    IF categories = <<>> THEN <<>>
    ELSE [i \in 1..Len(categories[1].patterns) |->
             [name |-> categories[1].name, pattern |-> categories[1].patterns[i]]]
         \o PatternOrder(Tail(categories))

\* _extract_intent: the category of the first pattern, in that order, that matches;
\* an invalid pattern reached before any match raises re.error
FirstMatchReversed(order, text) ==
    LET hits == {i \in 1..Len(order) :
                    order[i].pattern.kind = "invalid" \/ Search(order[i].pattern, text)}
    IN IF hits = {} THEN Return("general")
       ELSE LET i == SetMax(hits)
            IN IF order[i].pattern.kind = "invalid"
               THEN Raise(T("missing ), unterminated subpattern at position 0"))
               ELSE Return(order[i].name)
RECURSIVE FirstMatch(_, _)
FirstMatch(order, text) ==
    IF order = <<>> THEN Return("general")
    ELSE IF Head(order).pattern.kind = "invalid"
    THEN Raise(T("missing ), unterminated subpattern at position 0"))
    ELSE IF Search(Head(order).pattern, text) THEN Return(Head(order).name)
    ELSE FirstMatch(Tail(order), text)
_extract_intent(patterns, text) == FirstMatch(PatternOrder(patterns), text)

\* re.findall of an alternation of words: leftmost matches, not overlapping,
\* the alternatives tried in the order written
RECURSIVE FindWords(_, _, _)
FindWords(text, words, i) ==
    IF i >= Len(text) THEN <<>>
    ELSE LET hits == {k \in 1..Len(words) : OccursAt(text, words[k], i)}
         IN IF hits = {} THEN FindWords(text, words, i + 1)
            ELSE <<words[SetMin(hits)]>>
                 \o FindWords(text, words, i + Len(words[SetMin(hits)]))

DirectionWords == <<T("forward"), T("backward"), T("left"), T("right"), T("up"),
                    T("down"), T("north"), T("south"), T("east"), T("west")>>

\* int() of a run of digits
DigitValue == [c \in Digits |-> CHOOSE n \in 0..9 : ToString(n) = c]
RECURSIVE IntOf(_)
IntOf(digits) ==
    IF digits = <<>> THEN 0
    ELSE 10 * IntOf(SubSeq(digits, 1, Len(digits) - 1)) + DigitValue[digits[Len(digits)]]
\* re.findall(r'\d+', text): the maximal runs of digits, as integers
RECURSIVE FindNumbers(_, _)
FindNumbers(text, i) ==
    IF i > Len(text) THEN <<>>
    ELSE IF text[i] \notin Digits THEN FindNumbers(text, i + 1)
    ELSE LET stop == SetMin({k \in (i + 1)..(Len(text) + 1) :
                                k = Len(text) + 1 \/ text[k] \notin Digits})
         IN <<IntOf(SubSeq(text, i, stop - 1))>> \o FindNumbers(text, stop)

\* the end of the run of digits that starts at i (the index after it)
DigitsEnd(text, i) ==
    SetMin({k \in i..(Len(text) + 1) : k = Len(text) + 1 \/ text[k] \notin Digits})
\* the greedy match of -?\d+\.?\d* at i: the index after it, 0 when there is none
NumberEnd(text, i) ==
    LET start == IF i <= Len(text) /\ text[i] = "-" THEN i + 1 ELSE i
        whole == IF start > Len(text) THEN start ELSE DigitsEnd(text, start)
        fraction == IF whole <= Len(text) /\ text[whole] = "." THEN whole + 1 ELSE whole
    IN IF whole = start THEN 0 ELSE DigitsEnd(text, fraction)
\* float() of a matched number: sign, whole part, decimals without trailing zeros
RECURSIVE DropZeros(_)
DropZeros(digits) ==
    IF digits # <<>> /\ digits[Len(digits)] = "0"
    THEN DropZeros(SubSeq(digits, 1, Len(digits) - 1)) ELSE digits
Float(number) ==
    LET negative == number[1] = "-"
        body == IF negative THEN Tail(number) ELSE number
        dots == {k \in 1..Len(body) : body[k] = "."}
        point == IF dots = {} THEN Len(body) + 1 ELSE SetMin(dots)
    IN [negative |-> negative,
        whole |-> IntOf(SubSeq(body, 1, point - 1)),
        decimals |-> DropZeros(SubSeq(body, point + 1, Len(body)))]
\* the match of (-?\d+\.?\d*),\s*(-?\d+\.?\d*) at i: the index after it, 0 when none
CoordinatesAt(text, i) ==
    LET comma == NumberEnd(text, i)
        second == IF comma = 0 \/ comma > Len(text) THEN 0
                  ELSE SetMin({k \in (comma + 1)..(Len(text) + 1) :
                                  k = Len(text) + 1 \/ ~IsSpace(text[k])})
    IN IF comma = 0 \/ comma > Len(text) THEN [end |-> 0]
       ELSE IF text[comma] # "," \/ NumberEnd(text, second) = 0 THEN [end |-> 0]
       ELSE [end |-> NumberEnd(text, second),
             lat |-> Float(SubSeq(text, i, comma - 1)),
             lon |-> Float(SubSeq(text, second, NumberEnd(text, second) - 1))]
\* re.findall of the coordinate pattern: leftmost matches, not overlapping
RECURSIVE FindCoordinates(_, _)
FindCoordinates(text, i) ==
    IF i > Len(text) THEN <<>>
    ELSE IF CoordinatesAt(text, i).end = 0 THEN FindCoordinates(text, i + 1)
    ELSE <<[lat |-> CoordinatesAt(text, i).lat, lon |-> CoordinatesAt(text, i).lon]>>
         \o FindCoordinates(text, CoordinatesAt(text, i).end)

\* _extract_entities: a key is present only when its list is not empty
Entity(key, found) == IF found = <<>> THEN EmptyDict ELSE key :> found
_extract_entities(text) ==
    Entity("numbers", FindNumbers(text, 1))
    @@ Entity("directions", FindWords(text, DirectionWords, 0))
    @@ Entity("coordinates", FindCoordinates(text, 1))

None == "<None>"
\* str(v) inside an f-string
Str(v) == IF v = None THEN T("None") ELSE T(v)

\* the first literal of `order` that occurs in the text, or `default`
FirstIn(text, order, default) ==
    LET hits == {k \in 1..Len(order) : Has(text, order[k])}
    IN IF hits = {} THEN default ELSE order[SetMin(hits)]

Response(status, action, message) ==
    [status |-> status, action |-> action, message |-> message, timestamp |-> now]

\* _handle_system_control
SystemModeNoManual(command) ==
    FirstIn(command, <<"defense", "home", "night">>, None)
SystemModeHomeFirst(command) ==
    FirstIn(command, <<"home", "defense", "night", "manual">>, None)
SystemMode(command) ==
    FirstIn(command, <<"defense", "home", "night", "manual">>, None)
_handle_system_control(entities, command) ==
    IF Has(command, "status") \/ Has(command, "health")
    THEN Response("success", "get_system_status", T("Retrieving system status"))
    ELSE IF Has(command, "mode") /\ SystemMode(command) # None
    THEN Response("success", "change_mode",
                  T("Switching to ") \o Str(SystemMode(command)) \o T(" mode"))
         @@ [data |-> [mode |-> SystemMode(command)]]
    ELSE Response("success", "system_check", T("System check initiated"))

\* _handle_trinetra_control
TrinetraDirectionStopFirst(command) ==
    FirstIn(command, <<"stop", "forward", "backward", "left", "right">>, None)
TrinetraDirection(command) ==
    FirstIn(command, <<"forward", "backward", "left", "right", "stop">>, None)
_handle_trinetra_control(entities, command) ==
    IF \E w \in {"move", "forward", "backward", "left", "right"} : Has(command, w)
    THEN Response("success", "trinetra_move",
                  T("TRINETRA moving ") \o Str(TrinetraDirection(command)))
         @@ [data |-> [direction |-> TrinetraDirection(command)]]
    ELSE IF \E w \in {"camera", "stream", "snapshot"} : Has(command, w)
    THEN Response("success", "trinetra_camera", T("TRINETRA camera activated"))
         @@ [data |-> [action |-> IF Has(command, "snapshot") THEN "snapshot" ELSE "stream"]]
    ELSE IF Has(command, "patrol")
    THEN Response("success", "trinetra_mission", T("TRINETRA patrol mode activated"))
         @@ [data |-> [mission |-> "patrol"]]
    ELSE Response("success", "trinetra_status", T("TRINETRA status requested"))

\* _handle_krait3_control
Krait3Action(command) ==
    IF Has(command, "launch") \/ Has(command, "takeoff") THEN "takeoff"
    ELSE FirstIn(command, <<"land", "hover", "return">>, None)
_handle_krait3_control(entities, command) ==
    IF \E w \in {"launch", "takeoff", "land", "hover", "return"} : Has(command, w)
    THEN Response("success", "krait3_flight",
                  T("KRAIT-3 ") \o Str(Krait3Action(command)) \o T(" command executed"))
         @@ [data |-> [action |-> Krait3Action(command)]]
    ELSE IF Has(command, "waypoint") \/ Has(command, "navigate")
    THEN Response("success", "krait3_navigation", T("KRAIT-3 navigation initiated"))
         @@ [data |-> [coordinates |-> DictGet(entities, "coordinates", <<>>)]]
    ELSE Response("success", "krait3_status", T("KRAIT-3 status requested"))

\* _handle_voice_control
_handle_voice_control(entities, command) ==
    IF Has(command, "listen") \/ Has(command, "start")
    THEN Response("success", "voice_start", T("Voice recognition started"))
    ELSE IF Has(command, "stop") \/ Has(command, "quiet")
    THEN Response("success", "voice_stop", T("Voice recognition stopped"))
    ELSE Response("success", "voice_status", T("Voice system status"))

\* =========================================================================
\* Knowledge Cache
\* =========================================================================
\* ai_learning.py:367  hash(user_input) % 10000
HashModulus == 10000
\* ai_learning.py:268  extract[:300];  ai_learning.py:165  summary[:200]
SummaryLimit == 300
MessageLimit == 200
\* ai_learning.py:432  results[:5]
SearchLimit == 5

\* s[:n]
Take(s, n) == IF Len(s) > n THEN SubSeq(s, 1, n) ELSE s
\* str(n) of a natural number
RECURSIVE IntText(_)
IntText(n) == IF n < 10 THEN <<ToString(n)>> ELSE IntText(n \div 10) \o <<ToString(n % 10)>>
\* str(datetime) of the clock value t
TimeText(t) == IntText(t) \o T(":00:00")
\* s.replace(w, ''), w not empty
RECURSIVE Remove(_, _, _)
Remove(s, w, i) ==
    IF i >= Len(s) THEN <<>>
    ELSE IF OccursAt(s, w, i) THEN Remove(s, w, i + Len(w))
    ELSE <<s[i + 1]>> \o Remove(s, w, i + 1)
\* s.split(): the maximal runs of characters that are not whitespace
Split(s) ==
    LET starts == SelectSeq([i \in 1..Len(s) |-> i],
                            LAMBDA i : ~IsSpace(s[i]) /\ (i = 1 \/ IsSpace(s[i - 1])))
        EndOf(i) == SetMin({k \in i..Len(s) : k = Len(s) \/ IsSpace(s[k + 1])})
    IN [j \in 1..Len(starts) |-> SubSeq(s, starts[j], EndOf(starts[j]))]
\* sep.join(parts)
RECURSIVE Join(_, _)
Join(parts, sep) ==
    IF parts = <<>> THEN <<>>
    ELSE IF Len(parts) = 1 THEN parts[1]
    ELSE parts[1] \o sep \o Join(Tail(parts), sep)

\* the insertion-ordered dict knowledge_base: a sequence of [key, value]
KbKeys(kb) == [i \in 1..Len(kb) |-> kb[i].key]
KbHas(kb, key) == \E i \in 1..Len(kb) : kb[i].key = key
KbGet(kb, key) == kb[CHOOSE i \in 1..Len(kb) : kb[i].key = key].value
\* kb[key] = value: a key already there keeps its place
KbPut(kb, key, value) ==
    IF KbHas(kb, key)
    THEN [i \in 1..Len(kb) |-> IF kb[i].key = key THEN [key |-> key, value |-> value] ELSE kb[i]]
    ELSE Append(kb, [key |-> key, value |-> value])

\* a field that holds an int where the code expects a str
PyInt(n) == <<"int", n>>
IsStr(v) == ~(Len(v) = 2 /\ v[1] = "int")

\* str(value) of a stored record: its fields in insertion order, strings quoted
FieldOrder == <<"title", "extract", "summary", "url", "city", "temperature", "description",
                "humidity", "user_input", "system_response", "timestamp", "type", "source",
                "learned_at", "access_count">>
TimeFields == {"timestamp", "learned_at"}
NumberFields == {"temperature", "humidity", "access_count"}
Quoted(s) == IF Contains(s, <<"'">>) THEN <<"\"">> \o s \o <<"\"">> ELSE <<"'">> \o s \o <<"'">>
FieldText(k, v) ==
    IF k \in NumberFields THEN IntText(v)
    ELSE IF k \in TimeFields THEN Quoted(TimeText(v))
    ELSE IF k \in {"type", "source"} THEN Quoted(T(v))
    ELSE IF ~IsStr(v) THEN IntText(v[2])
    ELSE Quoted(v)
Repr(value) ==
    LET keys == SelectSeq(FieldOrder, LAMBDA k : k \in DOMAIN value)
    IN T("{")
       \o Join([i \in 1..Len(keys) |->
                   Quoted(T(keys[i])) \o T(": ") \o FieldText(keys[i], value[keys[i]])],
               T(", "))
       \o T("}")

\* json.dump: the document is an object whose members keep the insertion order;
\* a member has a name and a JSON value (a string, a number, an object).  The
\* fields the model keeps as a clock value or as a name are strings in the code
\* and in the document
NameFields == {"type", "source"}
Names == {"wikipedia", "openweather", "sensor", "conversation", "knowledge", "unknown"}
JsonString(s) == [type |-> "string", text |-> s]
JsonNumber(n) == [type |-> "number", number |-> n]
JsonField(k, v) ==
    IF k \in NumberFields THEN JsonNumber(v)
    ELSE IF k \in TimeFields THEN JsonString(TimeText(v))
    ELSE IF k \in NameFields THEN JsonString(T(v))
    ELSE IF ~IsStr(v) THEN JsonNumber(v[2])
    ELSE JsonString(v)
JsonObject(value) ==
    LET keys == SelectSeq(FieldOrder, LAMBDA k : k \in DOMAIN value)
    IN [type |-> "object",
        members |-> [i \in 1..Len(keys) |->
                        [name |-> T(keys[i]), value |-> JsonField(keys[i], value[keys[i]])]]]

\* json.load: an object becomes a dict (of two members with one name the later
\* stays), a string a str, a number an int
FieldNamed(name) == CHOOSE k \in {FieldOrder[i] : i \in 1..Len(FieldOrder)} : T(k) = name
TimeOf(text) == IntOf(SubSeq(text, 1, SetMin({i \in 1..Len(text) : text[i] = ":"}) - 1))
PyField(k, json) ==
    IF json.type = "number" THEN (IF k \in NumberFields THEN json.number ELSE PyInt(json.number))
    ELSE IF k \in TimeFields THEN TimeOf(json.text)
    ELSE IF k \in NameFields THEN CHOOSE name \in Names : T(name) = json.text
    ELSE json.text
PyDict(members) ==
    [k \in {FieldNamed(members[i].name) : i \in 1..Len(members)} |->
        PyField(k, members[SetMax({i \in 1..Len(members) : members[i].name = T(k)})].value)]

\* _save_knowledge_base: json.dump of the whole cache
SavedStale(kb) ==
    Document([i \in 1..(Len(kb) - 1) |-> [name |-> kb[i].key, value |-> JsonObject(kb[i].value)]])
SavedKnowledge(kb) ==
    Document([i \in 1..Len(kb) |-> [name |-> kb[i].key, value |-> JsonObject(kb[i].value)]])
\* _load_knowledge_base: no file, or a file json.load cannot read, gives {}
LoadedTextOnly(file) ==
    IF file.kind = "doc"
    THEN [i \in 1..Len(file.data) |->
             [key |-> file.data[i].name,
              value |-> PyDict(SelectSeq(file.data[i].value.members,
                                         LAMBDA m : m.value.type = "string"))]]
    ELSE <<>>
LoadedKnowledge(file) ==
    IF file.kind = "doc"
    THEN [i \in 1..Len(file.data) |->
             [key |-> file.data[i].name, value |-> PyDict(file.data[i].value.members)]]
    ELSE <<>>

\* _search_knowledge_base: the exact key, else the first key (in insertion order)
\* that contains the query or is contained in it
LookupLastPartial(kb, query) ==
    LET q == Lower(query)
        partial == {i \in 1..Len(kb) : Contains(kb[i].key, q) \/ Contains(q, kb[i].key)}
    IN IF KbHas(kb, q) THEN [found |-> TRUE, value |-> KbGet(kb, q)]
       ELSE IF partial # {} THEN [found |-> TRUE, value |-> kb[SetMax(partial)].value]
       ELSE [found |-> FALSE]
_search_knowledge_base(kb, query) ==
    LET q == Lower(query)
        partial == {i \in 1..Len(kb) : Contains(kb[i].key, q) \/ Contains(q, kb[i].key)}
    IN IF KbHas(kb, q) THEN [found |-> TRUE, value |-> KbGet(kb, q)]
       ELSE IF partial # {} THEN [found |-> TRUE, value |-> kb[SetMin(partial)].value]
       ELSE [found |-> FALSE]

\* what the HTTP request of _search_wikipedia can come to: a page (status 200),
\* another status, or an exception (timeout, transport, JSON)
WikiPages == {[title |-> T("AI"), extract |-> T("a field of study"),
               url |-> T("https://en.wikipedia.org/wiki/AI")]}
WikiReplies ==
    {[kind |-> "page", title |-> p.title, extract |-> p.extract, url |-> p.url] :
        p \in WikiPages}
    \cup {[kind |-> "status_404"], [kind |-> "exception"]}

\* _search_wikipedia
SearchWikipediaAnyStatus(configs, query, reply) ==
    IF ~configs["wikipedia"].enabled THEN [status |-> "disabled"]
    ELSE IF reply.kind = "exception" THEN [status |-> "error", error |-> T("timed out")]
    ELSE [status |-> "success",
          data |-> [title |-> DictGet(reply, "title", <<>>),
                    extract |-> DictGet(reply, "extract", <<>>),
                    summary |-> DictGet(reply, "extract", <<>>),
                    url |-> DictGet(reply, "url", <<>>),
                    timestamp |-> now]]
_search_wikipedia(configs, query, reply) ==
    IF ~configs["wikipedia"].enabled THEN [status |-> "disabled"]
    ELSE IF reply.kind = "page"
    THEN [status |-> "success",
          data |-> [title |-> reply.title,
                    extract |-> reply.extract,
                    summary |-> IF Len(reply.extract) > SummaryLimit
                                THEN Take(reply.extract, SummaryLimit) \o T("...")
                                ELSE reply.extract,
                    url |-> reply.url,
                    timestamp |-> now]]
    ELSE IF reply.kind = "status_404" THEN [status |-> "not_found"]
    ELSE [status |-> "error", error |-> T("timed out")]

\* _store_knowledge: the record under the lower-cased query, then the save
StoredRecord(data, source) ==
    DictMerge(data, [source |-> source, learned_at |-> now, access_count |-> 1])
StoreNothing(kb, query, data, source) == kb
StoreUnderQuery(kb, query, data, source) == KbPut(kb, query, StoredRecord(data, source))
_store_knowledge(kb, query, data, source) == KbPut(kb, Lower(query), StoredRecord(data, source))

\* the external lookup is made when the cache has no match
NeedsLookup(kb, query) == ~_search_knowledge_base(kb, query).found

\* search_and_learn: the result and the cache after it (the document is saved
\* whenever the cache is written); slicing a summary that is no str raises, and
\* the except clause answers with status error
search_and_learn(kb, configs, query, reply) ==
    With(_search_knowledge_base(kb, query), LAMBDA hit :
    With(_search_wikipedia(configs, query, reply), LAMBDA wiki :
       IF hit.found /\ ~IsStr(DictGet(hit.value, "summary", <<>>))
       THEN [result |-> [status |-> "error",
                         message |-> T("I encountered an error while searching for '") \o query
                                     \o T("': ") \o T("'int' object is not subscriptable")],
             kb |-> kb, stored |-> FALSE,
             lookups |-> 0]
       ELSE IF hit.found
       THEN [result |-> [status |-> "success",
                         source |-> "knowledge_base",
                         data |-> hit.value,
                         message |-> T("I already know about ") \o query \o T(". ")
                                     \o Take(DictGet(hit.value, "summary", <<>>), MessageLimit)
                                     \o T("...")],
             kb |-> kb, stored |-> FALSE,
             lookups |-> 0]
       ELSE IF wiki.status = "success"
       THEN [result |-> [status |-> "success",
                         source |-> "wikipedia",
                         data |-> wiki.data,
                         message |-> T("I learned about ") \o query \o T(" from Wikipedia. ")
                                     \o Take(wiki.data.extract, MessageLimit) \o T("...")],
             kb |-> _store_knowledge(kb, query, wiki.data, "wikipedia"), stored |-> TRUE,
             lookups |-> 1]
       ELSE [result |-> [status |-> "not_found",
                         message |-> T("I couldn't find information about '") \o query
                                     \o T("'. Let me remember this query for future learning.")],
             kb |-> kb, stored |-> FALSE,
             lookups |-> IF configs["wikipedia"].enabled THEN 1 ELSE 0]))

\* what the HTTP request of get_weather_info can come to
WeatherReplies ==
    {[kind |-> "reading", temperature |-> 21, description |-> T("light rain"), humidity |-> 80],
     [kind |-> "status_404"], [kind |-> "exception"]}

WeatherConfigured(configs) ==
    configs["openweather"].enabled /\ configs["openweather"].api_key # None

\* get_weather_info
get_weather_info(kb, configs, city, reply) ==
    IF ~WeatherConfigured(configs)
    THEN [result |-> [status |-> "disabled",
                      message |-> T("Weather API not configured. Please add OpenWeatherMap API key.")],
          kb |-> kb, stored |-> FALSE, lookups |-> 0]
    ELSE IF reply.kind = "reading"
    THEN LET weather_info == [city |-> city, temperature |-> reply.temperature,
                              description |-> reply.description,
                              humidity |-> reply.humidity, timestamp |-> now]
         IN [result |-> [status |-> "success",
                         data |-> weather_info,
                         message |-> T("Current weather in ") \o city \o T(": ")
                                     \o IntText(reply.temperature) \o T("°C, ")
                                     \o reply.description],
             kb |-> _store_knowledge(kb, T("weather_") \o Lower(city), weather_info, "openweather"),
             stored |-> TRUE, lookups |-> 1]
    ELSE IF reply.kind = "status_404"
    THEN [result |-> [status |-> "not_found",
                      message |-> T("Weather data not found for ") \o city],
          kb |-> kb, stored |-> FALSE, lookups |-> 1]
    ELSE [result |-> [status |-> "error",
                      message |-> T("Weather lookup failed: ") \o T("timed out")],
          kb |-> kb, stored |-> FALSE, lookups |-> 1]

\* learn_from_conversation: the entry under conversation_<hash % 10000>
ConversationKey(hash) == T("conversation_") \o IntText(hash % HashModulus)
LearnForgetsOthers(kb, user_input, system_response, hash) ==
    <<[key |-> ConversationKey(hash),
       value |-> [user_input |-> user_input, system_response |-> system_response,
                  timestamp |-> now, type |-> "conversation"]]>>
learn_from_conversation(kb, user_input, system_response, hash) ==
    KbPut(kb, ConversationKey(hash),
          [user_input |-> user_input, system_response |-> system_response,
           timestamp |-> now, type |-> "conversation"])

\* get_knowledge_stats
RECURSIVE CountBy(_, _, _)
CountBy(kb, field, default) ==
    IF kb = <<>> THEN <<>>
    ELSE LET rest == CountBy(SubSeq(kb, 1, Len(kb) - 1), field, default)
             v == DictGet(kb[Len(kb)].value, field, default)
         IN IF \E i \in 1..Len(rest) : rest[i].name = v
            THEN [i \in 1..Len(rest) |->
                     IF rest[i].name = v THEN [name |-> v, count |-> rest[i].count + 1]
                     ELSE rest[i]]
            ELSE Append(rest, [name |-> v, count |-> 1])
FileSize(file) == IF file.kind = "doc" THEN Len(file.data) ELSE 0
get_knowledge_stats(kb, file) ==
    [total_entries |-> Len(kb),
     sources |-> CountBy(kb, "source", "unknown"),
     types |-> CountBy(kb, "type", "knowledge"),
     file_size |-> FileSize(file)]

\* search_local_knowledge: key matches first, then content matches, five at most
SearchMediumFirst(kb, query) ==
    LET q == Lower(query)
        high == SelectSeq([i \in 1..Len(kb) |-> i], LAMBDA i : Contains(kb[i].key, q))
        medium == SelectSeq([i \in 1..Len(kb) |-> i],
                            LAMBDA i : ~Contains(kb[i].key, q)
                                       /\ Contains(Lower(Repr(kb[i].value)), q))
        Result(i, r) == [key |-> kb[i].key, relevance |-> r, data |-> kb[i].value]
    IN Take([j \in 1..Len(medium) |-> Result(medium[j], "medium")]
            \o [j \in 1..Len(high) |-> Result(high[j], "high")], SearchLimit)
search_local_knowledge(kb, query) ==
    LET q == Lower(query)
        high == SelectSeq([i \in 1..Len(kb) |-> i], LAMBDA i : Contains(kb[i].key, q))
        medium == SelectSeq([i \in 1..Len(kb) |-> i],
                            LAMBDA i : ~Contains(kb[i].key, q)
                                       /\ Contains(Lower(Repr(kb[i].value)), q))
        Result(i, r) == [key |-> kb[i].key, relevance |-> r, data |-> kb[i].value]
    IN Take([j \in 1..Len(high) |-> Result(high[j], "high")]
            \o [j \in 1..Len(medium) |-> Result(medium[j], "medium")], SearchLimit)

\* configure_api
DefaultApiConfigs ==
    ("wikipedia" :> [enabled |-> TRUE])
    @@ ("openweather" :> [enabled |-> FALSE, api_key |-> None])
    @@ ("worldbank" :> [enabled |-> TRUE])

\* =========================================================================
\* Decision Engine: the general handler and process_command
\* =========================================================================
\* what a handler hands back: its response, the cache after it, whether the
\* cache was written (and so saved), the external requests made, the hashes taken
Handled(response, kb, stored, lookups, hashed) ==
    [response |-> response, kb |-> kb, stored |-> stored, lookups |-> lookups,
     hashed |-> hashed]
Plain(response, kb) == Handled(response, kb, FALSE, 0, EmptyDict)

QuestionPrefixes == <<"what is", "tell me about", "explain", "who is", "where is">>

\* the topic of a knowledge query: the first prefix found is cut out everywhere
Topic(command) ==
    LET text == Lower(command)
        prefix == FirstIn(text, QuestionPrefixes, None)
    IN IF prefix = None THEN text ELSE Strip(Remove(text, T(prefix), 0))

\* hash(user_input): one value per text for the life of the process
HashOf(memo, text, fresh) == IF text \in DOMAIN memo THEN memo[text] ELSE fresh

\* _handle_knowledge_query without the test for an empty topic
KnowledgeQueryAnyTopic(command, kb, configs, memo, env) ==
    With(Topic(command), LAMBDA topic :
        With(search_and_learn(kb, configs, topic, env.wiki), LAMBDA learned :
            Handled([status |-> learned.result.status,
                     action |-> "knowledge_query",
                     message |-> learned.result.message,
                     data |-> DictGet(learned.result, "data", EmptyDict),
                     source |-> DictGet(learned.result, "source", "unknown"),
                     timestamp |-> now],
                    learn_from_conversation(learned.kb, command,
                                            DictGet(learned.result, "message", <<>>),
                                            HashOf(memo, command, env.hash)),
                    TRUE, learned.lookups,
                    command :> HashOf(memo, command, env.hash))))
\* _handle_knowledge_query
_handle_knowledge_query(command, kb, configs, memo, env) ==
    With(Topic(command), LAMBDA topic :
        IF topic = <<>>
        THEN Plain([status |-> "error",
                    message |-> T("Please specify what you would like to know about."),
                    timestamp |-> now], kb)
        ELSE With(search_and_learn(kb, configs, topic, env.wiki), LAMBDA learned :
                 Handled([status |-> learned.result.status,
                          action |-> "knowledge_query",
                          message |-> learned.result.message,
                          data |-> DictGet(learned.result, "data", EmptyDict),
                          source |-> DictGet(learned.result, "source", "unknown"),
                          timestamp |-> now],
                         learn_from_conversation(learned.kb, command,
                                                 DictGet(learned.result, "message", <<>>),
                                                 HashOf(memo, command, env.hash)),
                         TRUE, learned.lookups,
                         command :> HashOf(memo, command, env.hash))))

\* _handle_weather_query: the word after the first "in", else London
City(command) ==
    LET words == Split(command)
        at == {i \in 1..Len(words) : words[i] = T("in")}
    IN IF at # {} /\ SetMin(at) < Len(words) THEN words[SetMin(at) + 1] ELSE T("London")
_handle_weather_query(command, kb, configs, env) ==
    With(get_weather_info(kb, configs, City(command), env.weather), LAMBDA got :
        Handled([status |-> got.result.status,
                 action |-> "weather_query",
                 message |-> got.result.message,
                 data |-> DictGet(got.result, "data", EmptyDict),
                 timestamp |-> now],
                got.kb, got.stored, got.lookups, EmptyDict))

\* _handle_knowledge_stats
_handle_knowledge_stats(kb, file) ==
    LET stats == get_knowledge_stats(kb, file)
        names == [i \in 1..Len(stats.sources) |-> T(stats.sources[i].name)]
    IN Response("success", "knowledge_stats",
                T("I have learned ") \o IntText(stats.total_entries)
                \o T(" things so far. Sources: ")
                \o (IF names = <<>> THEN T("None yet") ELSE Join(names, T(", ")))
                \o T("."))
       @@ [data |-> stats]

HelpCommands == <<
    T("system status - Get system health"),
    T("TRINETRA move forward - Control ground bot"),
    T("KRAIT-3 launch - Control UAV"),
    T("start listening - Voice recognition"),
    T("what is [topic] - Learn about topics"),
    T("weather in [city] - Get weather info"),
    T("knowledge stats - See what I have learned") >>

\* _handle_general with the weather branch ahead of the question branch
HandleGeneralWeatherFirst(entities, command, kb, file, configs, memo, env) ==
    IF \E w \in {"hello", "hi", "hey"} : Has(command, w)
    THEN Plain(Response("success", "greeting",
                        T("Hello Commander. LYRA 3.0 is ready for your commands.")), kb)
    ELSE IF Has(command, "help")
    THEN Plain(Response("success", "help",
                        T("Available commands: system status, TRINETRA control, KRAIT-3 control, voice commands, ask about anything"))
               @@ [commands |-> HelpCommands], kb)
    ELSE IF \E w \in {"thank", "thanks"} : Has(command, w)
    THEN Plain(Response("success", "acknowledge", T("You are welcome, Commander.")), kb)
    ELSE IF \E w \in {"goodbye", "bye", "exit"} : Has(command, w)
    THEN Plain(Response("success", "goodbye",
                        T("Goodbye Commander. LYRA 3.0 standing by.")), kb)
    ELSE IF Has(command, "weather")
    THEN _handle_weather_query(command, kb, configs, env)
    ELSE IF FirstIn(command, QuestionPrefixes, None) # None
    THEN _handle_knowledge_query(command, kb, configs, memo, env)
    ELSE IF Has(command, "knowledge stats") \/ Has(command, "what do you know")
    THEN Plain(_handle_knowledge_stats(kb, file), kb)
    ELSE LET search_results == search_local_knowledge(kb, command)
         IN IF search_results # <<>>
            THEN Plain(Response("success", "knowledge_recall",
                                T("I found this in my knowledge base: ")
                                \o With(DictGet(search_results[1].data, "summary",
                                                Take(Repr(search_results[1].data), MessageLimit)),
                                        LAMBDA summary :
                                            IF IsStr(summary) THEN summary
                                            ELSE IntText(summary[2])))
                       @@ [data |-> search_results[1].data], kb)
            ELSE Plain(Response("success", "default",
                                T("Command received. I can help with system control, or you can ask me questions to help me learn."))
                       @@ [suggestion |-> T("Try asking \"what is artificial intelligence\" or \"help\" for available commands")],
                       kb)
\* _handle_general: the first branch that applies
_handle_general(entities, command, kb, file, configs, memo, env) ==
    IF \E w \in {"hello", "hi", "hey"} : Has(command, w)
    THEN Plain(Response("success", "greeting",
                        T("Hello Commander. LYRA 3.0 is ready for your commands.")), kb)
    ELSE IF Has(command, "help")
    THEN Plain(Response("success", "help",
                        T("Available commands: system status, TRINETRA control, KRAIT-3 control, voice commands, ask about anything"))
               @@ [commands |-> HelpCommands], kb)
    ELSE IF \E w \in {"thank", "thanks"} : Has(command, w)
    THEN Plain(Response("success", "acknowledge", T("You are welcome, Commander.")), kb)
    ELSE IF \E w \in {"goodbye", "bye", "exit"} : Has(command, w)
    THEN Plain(Response("success", "goodbye",
                        T("Goodbye Commander. LYRA 3.0 standing by.")), kb)
    ELSE IF FirstIn(command, QuestionPrefixes, None) # None
    THEN _handle_knowledge_query(command, kb, configs, memo, env)
    ELSE IF Has(command, "weather")
    THEN _handle_weather_query(command, kb, configs, env)
    ELSE IF Has(command, "knowledge stats") \/ Has(command, "what do you know")
    THEN Plain(_handle_knowledge_stats(kb, file), kb)
    ELSE LET search_results == search_local_knowledge(kb, command)
         IN IF search_results # <<>>
            THEN Plain(Response("success", "knowledge_recall",
                                T("I found this in my knowledge base: ")
                                \o With(DictGet(search_results[1].data, "summary",
                                                Take(Repr(search_results[1].data), MessageLimit)),
                                        LAMBDA summary :
                                            IF IsStr(summary) THEN summary
                                            ELSE IntText(summary[2])))
                       @@ [data |-> search_results[1].data], kb)
            ELSE Plain(Response("success", "default",
                                T("Command received. I can help with system control, or you can ask me questions to help me learn."))
                       @@ [suggestion |-> T("Try asking \"what is artificial intelligence\" or \"help\" for available commands")],
                       kb)

\* _generate_response
_generate_response(intent, entities, command, kb, file, configs, memo, env) ==
    IF intent = "system_control" THEN Plain(_handle_system_control(entities, command), kb)
    ELSE IF intent = "trinetra_control" THEN Plain(_handle_trinetra_control(entities, command), kb)
    ELSE IF intent = "krait3_control" THEN Plain(_handle_krait3_control(entities, command), kb)
    ELSE IF intent = "voice_control" THEN Plain(_handle_voice_control(entities, command), kb)
    ELSE IF intent = "general"
    THEN _handle_general(entities, command, kb, file, configs, memo, env)
    ELSE Plain([status |-> "unknown",
                message |-> T("Intent not recognized"),
                intent |-> intent,
                suggestion |-> T("Try asking for help or status"),
                timestamp |-> now], kb)

\* the except clause of process_command
ErrorResponseReraised(description) == [status |-> "raised", error |-> description]
ErrorResponse(description) ==
    [status |-> "error",
     message |-> T("Command processing failed"),
     error |-> description,
     timestamp |-> now]

\* the body of process_command: every stage, and what the call leaves behind;
\* a stage that raises ends the call in the except clause
Failed(text, description) ==
    [normalized |-> text, intent |-> None, entities |-> EmptyDict,
     handled |-> Plain(ErrorResponse(description), knowledge_base)]
Responded(text, intent, entities, env) ==
    [normalized |-> text, intent |-> intent, entities |-> entities,
     handled |-> _generate_response(intent, entities, text, knowledge_base, kb_file,
                                    api_configs, hashes, env)]
Classified(text, env) ==
    With(_extract_intent(command_patterns, text), LAMBDA intent :
        IF intent.raised THEN Failed(text, intent.error)
        ELSE With(_extract_entities(text), LAMBDA entities :
                 Responded(text, intent.value, entities, env)))
Processed(command, env) ==
    With(_normalize_command(command), LAMBDA normalized :
        IF normalized.raised THEN Failed(<<>>, normalized.error)
        ELSE Classified(normalized.value, env))

\* the outcomes of the outside world one call can meet: a knowledge query asks
\* Wikipedia and hashes its text, a weather query asks the weather source
HashValues == {10007}
DefaultEnv == [wiki |-> [kind |-> "exception"], weather |-> [kind |-> "exception"],
               hash |-> CHOOSE h \in HashValues : TRUE]
KnowledgeEnvs == {[DefaultEnv EXCEPT !.wiki = w, !.hash = h] : w \in WikiReplies, h \in HashValues}
WeatherEnvs == {[DefaultEnv EXCEPT !.weather = r] : r \in WeatherReplies}
\* a call that asks nothing and hashes nothing has one outcome
Outcomes(command) ==
    LET quiet == Processed(command, DefaultEnv)
    IN IF quiet.handled.hashed # EmptyDict
       THEN {Processed(command, env) @@ [reply |-> env.wiki] : env \in KnowledgeEnvs}
       ELSE IF quiet.handled.lookups > 0
       THEN {Processed(command, env) @@ [reply |-> env.weather] : env \in WeatherEnvs}
       ELSE {quiet @@ [reply |-> NoReply]}

Finish(command, done) ==
    /\ knowledge_base' = done.handled.kb
    /\ kb_file' = IF done.handled.stored THEN SavedKnowledge(done.handled.kb) ELSE kb_file
    /\ hashes' = DictMerge(hashes, done.handled.hashed)
    /\ call' = [command |-> command, normalized |-> done.normalized,
                intent |-> done.intent, entities |-> done.entities,
                response |-> done.handled.response, lookups |-> done.handled.lookups,
                reply |-> IF done.handled.lookups > 0 THEN done.reply ELSE NoReply]
    /\ op' = [name |-> "process_command", arg |-> ""]
    /\ UNCHANGED <<ctx_data, context_file, now, added, cleared, mode_req,
                   command_patterns, api_configs, peer_knowledge_base>>

Process(command) ==
    \E done \in Outcomes(command) :
        /\ Len(done.handled.kb) <= MaxKnowledge
        /\ Finish(command, done)

\* process_command, called with a command of the caller's choice
process_command(command) == Process(command) /\ UNCHANGED pending
\* process_command, called with the command that was waiting
Deliver == pending # NoPending /\ Process(pending) /\ pending' = NoPending

\* add_custom_pattern: the pattern goes to the end of its category, a new
\* category to the end of the categories
add_custom_pattern(category, pattern) ==
    /\ command_patterns' =
          IF \E i \in 1..Len(command_patterns) : command_patterns[i].name = category
          THEN [i \in 1..Len(command_patterns) |->
                   IF command_patterns[i].name = category
                   THEN [name |-> category,
                         patterns |-> Append(command_patterns[i].patterns, pattern)]
                   ELSE command_patterns[i]]
          ELSE Append(command_patterns, [name |-> category, patterns |-> <<pattern>>])
    /\ op' = [name |-> "add_custom_pattern", arg |-> category]
    /\ UNCHANGED <<ctx_vars_but_op, peer_knowledge_base, knowledge_base, kb_file, api_configs, hashes, pending, call>>

\* configure_api: an unknown name changes nothing
configure_api(api_name, config) ==
    /\ api_configs' =
          IF api_name \in DOMAIN api_configs
          THEN DictMerge(api_configs, api_name :> DictMerge(api_configs[api_name], config))
          ELSE api_configs
    /\ op' = [name |-> "configure_api", arg |-> api_name]
    /\ UNCHANGED <<ctx_vars_but_op, peer_knowledge_base, command_patterns, knowledge_base, kb_file, hashes, pending, call>>

\* DecisionEngine.__init__: the patterns, and a new AILearningSystem that loads
\* the knowledge document
ConstructEngine ==
    /\ command_patterns' = _load_command_patterns
    /\ knowledge_base' = LoadedKnowledge(kb_file)
    /\ api_configs' = DefaultApiConfigs
    /\ call' = NoCall
    /\ op' = [name |-> "construct_engine", arg |-> ""]
    /\ UNCHANGED <<ctx_vars_but_op, peer_knowledge_base, kb_file, hashes, pending>>

\* ---- the Knowledge Cache called by its owner ----
\* AILearningSystem.__init__: the default configuration, then the load
ConstructCache ==
    /\ knowledge_base' = LoadedKnowledge(kb_file)
    /\ api_configs' = DefaultApiConfigs
    /\ call' = NoCall
    /\ op' = [name |-> "construct_cache", arg |-> ""]
    /\ UNCHANGED <<ctx_vars_but_op, peer_knowledge_base, command_patterns, kb_file, hashes, pending>>

\* _store_knowledge with its save
Store(query, data, source) ==
    /\ knowledge_base' = _store_knowledge(knowledge_base, query, data, source)
    /\ kb_file' = SavedKnowledge(knowledge_base')
    /\ call' = [query |-> query, data |-> data, source |-> source]
    /\ op' = [name |-> "_store_knowledge", arg |-> ""]
    /\ UNCHANGED <<ctx_vars_but_op, peer_knowledge_base, command_patterns, api_configs, hashes, pending>>

\* search_and_learn; `reply` is what the request to Wikipedia comes to if it is sent
SearchAndLearn(query, reply) ==
    \E learned \in {search_and_learn(knowledge_base, api_configs, query, reply)} :
        /\ Len(learned.kb) <= MaxKnowledge
        /\ knowledge_base' = learned.kb
        /\ kb_file' = IF learned.stored THEN SavedKnowledge(learned.kb) ELSE kb_file
        /\ call' = [query |-> query, reply |-> reply, result |-> learned.result,
                    lookups |-> learned.lookups]
        /\ op' = [name |-> "search_and_learn", arg |-> ""]
        /\ UNCHANGED <<ctx_vars_but_op, peer_knowledge_base, command_patterns, api_configs, hashes, pending>>

\* get_weather_info; `reply` is what the request to OpenWeatherMap comes to if
\* it is sent; a reading is stored and saved
GetWeatherInfo(city, reply) ==
    \E weather \in {get_weather_info(knowledge_base, api_configs, city, reply)} :
        /\ Len(weather.kb) <= MaxKnowledge
        /\ knowledge_base' = weather.kb
        /\ kb_file' = IF weather.stored THEN SavedKnowledge(weather.kb) ELSE kb_file
        /\ call' = [city |-> city, reply |-> reply, result |-> weather.result,
                    lookups |-> weather.lookups]
        /\ op' = [name |-> "get_weather_info", arg |-> ""]
        /\ UNCHANGED <<ctx_vars_but_op, peer_knowledge_base, command_patterns, api_configs, hashes, pending>>

\* get_knowledge_stats, which leaves the cache as it is
GetKnowledgeStats ==
    /\ call' = [stats |-> get_knowledge_stats(knowledge_base, kb_file)]
    /\ op' = [name |-> "get_knowledge_stats", arg |-> ""]
    /\ UNCHANGED <<ctx_vars_but_op, peer_knowledge_base, command_patterns, knowledge_base, kb_file, api_configs,
                   hashes, pending>>

\* learn_from_conversation with its save
LearnFromConversation(user_input, system_response, hash) ==
    /\ knowledge_base' = learn_from_conversation(knowledge_base, user_input, system_response,
                                                 HashOf(hashes, user_input, hash))
    /\ kb_file' = SavedKnowledge(knowledge_base')
    /\ hashes' = DictMerge(hashes, user_input :> HashOf(hashes, user_input, hash))
    /\ call' = [user_input |-> user_input, system_response |-> system_response]
    /\ op' = [name |-> "learn_from_conversation", arg |-> ""]
    /\ UNCHANGED <<ctx_vars_but_op, peer_knowledge_base, command_patterns, api_configs, pending>>

EngFresh ==
    /\ command_patterns = _load_command_patterns
    /\ knowledge_base = <<>>
    /\ kb_file = NoFile
    /\ api_configs = DefaultApiConfigs
    /\ hashes = EmptyDict
    /\ call = NoCall
    /\ peer_knowledge_base = <<>>
EngInit == EngFresh /\ pending = NoPending

CtxInit ==
    /\ now = 0
    /\ context_file = NoFile
    /\ current_mode = InitialMode(NoFile)
    /\ system_state = EmptyDict
    /\ conversation_history = <<>>
    /\ user_preferences = LoadedPreferences(NoFile)
    /\ device_states = LoadedDevices(NoFile)
    /\ session_start_time = 0
    /\ last_activity = 0
    /\ added = 0
    /\ cleared = FALSE
    /\ mode_req = "none"
    /\ op = [name |-> "construct", arg |-> ""]

vars == <<ctx_vars, eng_vars>>

Init == CtxInit /\ EngInit

\* every Context Store operation, on the small argument sets above
NextCtx ==
    \/ \E m \in ModeArgs : set_mode(m)
    \/ \E c \in Components, s \in ComponentStates : update_system_state(c, s)
    \/ added < MaxAdds /\ add_conversation_entry([id |-> added + 1])
    \/ \E d \in DeviceArgs, s \in DeviceUpdates : update_device_state(d, s)
    \/ \E k \in PrefKeys, v \in PrefValues : set_user_preference(k, v)
    \/ cleanup_old_data
    \/ reset_session
    \/ save_context
    \/ Construct
    \/ Tick

SpecCtx == Init /\ [][NextCtx]_vars

\* the conversation history filled past its limit, with the clock standing still
NextHist ==
    \/ added < MaxHistAdds /\ add_conversation_entry([id |-> added + 1])
    \/ cleanup_old_data
    \/ reset_session
    \/ Construct

SpecHist == Init /\ [][NextHist]_vars

\* stores saved and constructed again, the first over a document that is
\* missing or cannot be read
UnreadableFiles == {NoFile, Malformed}
InitPersist ==
    /\ now = 0
    /\ context_file \in UnreadableFiles
    /\ current_mode = InitialMode(context_file)
    /\ system_state = EmptyDict
    /\ conversation_history = <<>>
    /\ user_preferences = LoadedPreferences(context_file)
    /\ device_states = LoadedDevices(context_file)
    /\ session_start_time = 0
    /\ last_activity = 0
    /\ added = 0
    /\ cleared = FALSE
    /\ mode_req = "none"
    /\ op = [name |-> "construct", arg |-> ""]
    /\ EngInit
NextPersist ==
    \/ \E m \in ModeArgs : set_mode(m)
    \/ \E c \in Components, s \in ComponentStates : update_system_state(c, s)
    \/ added < MaxAdds /\ add_conversation_entry([id |-> added + 1])
    \/ \E d \in DeviceArgs, s \in DeviceUpdates : update_device_state(d, s)
    \/ \E k \in PrefKeys, v \in PrefValues : set_user_preference(k, v)
    \/ save_context
    \/ Construct
SpecPersist == InitPersist /\ [][NextPersist]_vars

\* ---- the Decision Engine on generated commands ----
\* the words commands are built from: the mode commands, the ground-device
\* commands, and one or more words of every other domain
ModeWords == <<"switch to", "mode", "defense", "home", "night", "manual", "status">>
MoveWords == <<"move", "trinetra", "ugv", "forward", "backward", "left", "right", "stop",
               "status">>
OtherWords == <<"launch", "listen", "hello">>
RECURSIVE Phrases(_, _)
\* every text of n of the words, single spaces between them
Phrases(words, n) ==
    IF n = 1 THEN {T(words[i]) : i \in 1..Len(words)}
    ELSE {p \o T(" ") \o T(words[i]) : p \in Phrases(words, n - 1), i \in 1..Len(words)}
GeneratedTexts ==
    UNION {Phrases(ModeWords, n) \cup Phrases(MoveWords, n) : n \in 1..MaxWords}
    \cup Phrases(ModeWords \o MoveWords \o OtherWords, 2)
\* the commands of the component test and of the demo, as they are typed there
TypedCommands ==
    {Command(c) : c \in {"system status", "hello LYRA", "help", "TRINETRA move forward",
                         "KRAIT-3 launch", "Hello LYRA", "System status",
                         "Switch to defense mode", "Switch to home mode",
                         "Switch to night mode", "Switch to manual mode",
                         "Move TRINETRA forward", "Launch KRAIT-3", "Help", "Thank you",
                         "  Move   UGV\tLEFT! "}}
\* navigation commands for the aerial device, with and without a coordinate pair
CoordinateCommands ==
    {Command(c) : c \in {"navigate to 12.5,77.6", "drone waypoint -3, 4",
                         "uav navigate north"}}
\* commands with punctuation between words
PunctuatedCommands == {Command(c) : c \in {"a ! b", "Scan, area."}}
PipelineCommands ==
    {[kind |-> "str", text |-> p] : p \in GeneratedTexts}
    \cup TypedCommands \cup CoordinateCommands \cup PunctuatedCommands \cup {NoneCommand}

InitPipeline == CtxInit /\ EngFresh /\ pending \in PipelineCommands
NextPipeline == Deliver
SpecPipeline == InitPipeline /\ [][NextPipeline]_vars

\* ---- the Decision Engine with its Knowledge Cache and its Context Store ----
EngineCommands ==
    {Command(c) : c \in {"What is AI?", "what is", "weather in paris",
                         "Switch to defense mode", "scan area"}}
    \cup {NoneCommand}
\* a new category with a pattern of its own, and a pattern re cannot compile
CustomArgs == {[category |-> "custom", pattern |-> Alt({"scan"})],
               [category |-> "system_control", pattern |-> InvalidPattern]}
RECURSIVE PatternCount(_)
PatternCount(patterns) ==
    IF patterns = <<>> THEN 0
    ELSE Len(Head(patterns).patterns) + PatternCount(Tail(patterns))
ApiArgs == {"openweather", "maps"}
ApiSettings == {[enabled |-> TRUE, api_key |-> "key"]}

NextEngine ==
    \/ \E c \in EngineCommands : process_command(c)
    \/ \E c \in CustomArgs :
          /\ PatternCount(command_patterns) < PatternCount(_load_command_patterns) + MaxCustom
          /\ add_custom_pattern(c.category, c.pattern)
    \/ \E a \in ApiArgs, s \in ApiSettings : configure_api(a, s)
    \/ ConstructEngine

SpecEngine == Init /\ [][NextEngine]_vars

\* ---- the Knowledge Cache on its own ----
\* the payloads handed to _store_knowledge: a page, a weather reading, and data
\* of another source whose summary field is a number
StoreArgs ==
    {[data |-> [title |-> T("AI"), extract |-> T("a field of study"),
                summary |-> T("a field of study"),
                url |-> T("https://en.wikipedia.org/wiki/AI")],
      source |-> "wikipedia"],
     [data |-> [city |-> T("paris"), temperature |-> 21, description |-> T("light rain"),
                humidity |-> 80],
      source |-> "openweather"],
     [data |-> [summary |-> PyInt(5)], source |-> "sensor"]}
StoreQueries == {T("AI"), T("ai")}
LookupQueries == {T("AI"), T("ai")}
ConversationArgs == {[user_input |-> T("hello"), system_response |-> T("Help")]}
WikipediaSettings == {[enabled |-> FALSE], [enabled |-> TRUE]}

NextKnowledge ==
    \/ \E q \in StoreQueries, a \in StoreArgs :
          /\ Len(_store_knowledge(knowledge_base, q, a.data, a.source)) <= MaxKnowledge
          /\ Store(q, a.data, a.source)
    \/ \E q \in LookupQueries, r \in WikiReplies : SearchAndLearn(q, r)
    \/ \E c \in ConversationArgs, h \in HashValues :
          /\ Len(learn_from_conversation(knowledge_base, c.user_input, c.system_response,
                                         HashOf(hashes, c.user_input, h))) <= MaxKnowledge
          /\ LearnFromConversation(c.user_input, c.system_response, h)
    \/ \E s \in WikipediaSettings : configure_api("wikipedia", s)
    \/ ConstructCache
    \/ Tick

SpecKnowledge == Init /\ [][NextKnowledge]_vars

\* ---- search_local_knowledge on caches of up to MaxPool entries ----
\* search_local_knowledge, which leaves the cache as it is
SearchLocalKnowledge(query) ==
    /\ call' = [query |-> query, results |-> search_local_knowledge(knowledge_base, query)]
    /\ op' = [name |-> "search_local_knowledge", arg |-> ""]
    /\ UNCHANGED <<ctx_vars_but_op, peer_knowledge_base, command_patterns, knowledge_base, kb_file, api_configs,
                   hashes, pending>>

\* the entries the caches are made of, as _store_knowledge leaves them: a
\* weather reading whose description has the word rain (1st and 6th), a page
\* that has it nowhere (4th), and pages stored under keys that have it
PoolEntry(i) ==
    IF i \in {1, 6}
    THEN [key |-> T("weather_paris") \o IntText(i),
          value |-> [city |-> T("paris"), temperature |-> 21,
                     description |-> T("light rain"), humidity |-> 80,
                     source |-> "openweather", learned_at |-> 0, access_count |-> 1]]
    ELSE [key |-> (IF i = 4 THEN T("ai") ELSE T("rain")) \o IntText(i),
          value |-> [title |-> T("AI"), extract |-> T("a field of study"),
                     summary |-> T("a field of study"),
                     url |-> T("https://en.wikipedia.org/wiki/AI"),
                     source |-> "wikipedia", learned_at |-> 0, access_count |-> 1]]
\* the entries numbered in `chosen`, in the order of their numbers
RECURSIVE PoolCache(_)
PoolCache(chosen) ==
    IF chosen = {} THEN <<>>
    ELSE Append(PoolCache(chosen \ {SetMax(chosen)}), PoolEntry(SetMax(chosen)))
SearchQueries == {T("rain"), T("RAIN"), T("light")}

InitSearch ==
    /\ CtxInit
    /\ command_patterns = _load_command_patterns
    /\ knowledge_base \in {PoolCache(chosen) : chosen \in SUBSET (1..MaxPool)}
    /\ kb_file = SavedKnowledge(knowledge_base)
    /\ api_configs = DefaultApiConfigs
    /\ hashes = EmptyDict
    /\ call = NoCall
    /\ pending = NoPending
    /\ peer_knowledge_base = <<>>
NextSearch == \E q \in SearchQueries : SearchLocalKnowledge(q)
SpecSearch == InitSearch /\ [][NextSearch]_vars

\* ---- two engines, each with its own cache, over one knowledge document ----
CacheStoreQueries == {T("rain"), T("AI")}
\* DecisionEngine.__init__ of the second engine: its AILearningSystem loads
\* the document as it is then
PeerConstruct ==
    /\ peer_knowledge_base' = LoadedKnowledge(kb_file)
    /\ op' = [name |-> "peer_construct", arg |-> ""]
    /\ UNCHANGED <<ctx_vars_but_op, command_patterns, knowledge_base, kb_file, api_configs,
                   hashes, pending, call>>
\* _store_knowledge of the second engine's cache, with its save: the document
\* is rewritten from that cache
PeerStore(query, data, source) ==
    /\ peer_knowledge_base' = _store_knowledge(peer_knowledge_base, query, data, source)
    /\ kb_file' = SavedKnowledge(peer_knowledge_base')
    /\ call' = [query |-> query, data |-> data, source |-> source]
    /\ op' = [name |-> "peer_store", arg |-> ""]
    /\ UNCHANGED <<ctx_vars_but_op, command_patterns, knowledge_base, api_configs,
                   hashes, pending>>
NextTwoEngines ==
    \/ \E q \in CacheStoreQueries, a \in StoreArgs :
          /\ Len(_store_knowledge(knowledge_base, q, a.data, a.source)) <= MaxKnowledge
          /\ Store(q, a.data, a.source)
    \/ \E q \in CacheStoreQueries, a \in StoreArgs :
          /\ Len(_store_knowledge(peer_knowledge_base, q, a.data, a.source)) <= MaxKnowledge
          /\ PeerStore(q, a.data, a.source)
    \/ ConstructEngine
    \/ PeerConstruct
SpecTwoEngines == Init /\ [][NextTwoEngines]_vars

\* ---- general commands that more than one step of _handle_general fits ----
GeneralCommands ==
    {Command(c) : c \in {"hello what is help", "this weather", "help thanks",
                         "thanks bye", "bye explain weather", "what is the weather",
                         "weather knowledge stats", "knowledge stats field", "field",
                         "what is", "Explain!"}}
NextGeneral ==
    \/ \E c \in GeneralCommands : process_command(c)
    \/ \E s \in ApiSettings : configure_api("openweather", s)
SpecGeneral == Init /\ [][NextGeneral]_vars

\* ---- one Knowledge Cache under every operation it has ----
CacheLookups == {T("ai"), T("Train"), T("on")}
CacheCities == {T("paris")}
CacheSearches == {T("rain")}
CacheSettings ==
    {[api |-> "openweather", config |-> [enabled |-> TRUE, api_key |-> "key"]]}

NextCache ==
    \/ \E q \in CacheStoreQueries, a \in StoreArgs :
          /\ Len(_store_knowledge(knowledge_base, q, a.data, a.source)) <= MaxKnowledge
          /\ Store(q, a.data, a.source)
    \/ \E q \in CacheLookups, r \in WikiReplies : SearchAndLearn(q, r)
    \/ \E c \in ConversationArgs, h \in HashValues :
          /\ Len(learn_from_conversation(knowledge_base, c.user_input, c.system_response,
                                         HashOf(hashes, c.user_input, h))) <= MaxKnowledge
          /\ LearnFromConversation(c.user_input, c.system_response, h)
    \/ \E c \in CacheCities, r \in WeatherReplies : GetWeatherInfo(c, r)
    \/ \E q \in CacheSearches : SearchLocalKnowledge(q)
    \/ GetKnowledgeStats
    \/ \E s \in CacheSettings : configure_api(s.api, s.config)
SpecCache == Init /\ [][NextCache]_vars

\* =========================================================================
\* Properties of the Context Store
\* =========================================================================
Min(a, b) == IF a < b THEN a ELSE b

\* C1: in every state the current mode is one of home, defense, night, manual,
\* and get_mode() is the argument of the most recent set_mode call whose
\* argument was one of the four, or "home" when there was none since the store
\* was constructed (a persisted document restores no mode).
C1_ModeIsLastValidRequest ==
    /\ get_mode \in valid_modes
    /\ get_mode = IF mode_req = "none" THEN "home" ELSE mode_req

\* a rejected set_mode after an accepted one, over a store built from a document
C1_Witness ==
    /\ op = [name |-> "set_mode", arg |-> "stealth"]
    /\ mode_req = "night"
    /\ get_mode = "night"
    /\ context_file.kind = "doc"

\* C2: set_mode(v) with v none of the four modes changes nothing: mode,
\* last_activity, device_states, user_preferences, system_state,
\* conversation_history (and session start and the persisted document) are as
\* they were before the call.
C2_InvalidModeChangesNothing ==
    [][(op'.name = "set_mode" /\ op'.arg \notin valid_modes)
          => (UNCHANGED ctx_data /\ UNCHANGED context_file)]_vars

\* set_mode("stealth") was just called on a store that holds something
C2_Witness ==
    /\ op = [name |-> "set_mode", arg |-> "stealth"]
    /\ current_mode = "defense"
    /\ Len(conversation_history) = 1
    /\ "voice" \in DOMAIN user_preferences
    /\ "tts" \in DOMAIN system_state
    /\ last_activity < now

\* C3: the conversation history never holds more than 100 entries; it is the
\* run of the most recently added entries in insertion order (entry k is the
\* k-th add); and with no reset, cleanup or reconstruction since the store was
\* built it holds exactly the last min(n, 100) of the n entries added.
C3_HistoryKeepsLast100 ==
    /\ Len(conversation_history) <= HistoryLimit
    /\ \A i \in 1..Len(conversation_history) :
          conversation_history[i].id = added - Len(conversation_history) + i
    /\ ~cleared => Len(conversation_history) = Min(added, HistoryLimit)

\* 102 entries added and nothing cleared: entries 1 and 2 are gone, 3..102 remain
C3_Witness ==
    /\ ~cleared
    /\ added = HistoryLimit + 2
    /\ Len(conversation_history) = HistoryLimit
    /\ conversation_history[1].id = 3
    /\ conversation_history[HistoryLimit].id = HistoryLimit + 2

\* C4: update_device_state(d, s) with d not a registered device creates no
\* entry for d and leaves device_states and last_activity as they were; after
\* it get_device_state(d) is the empty record and is_device_connected(d) is false.
C4_UnknownDeviceIgnored ==
    [][(op'.name = "update_device_state" /\ op'.arg \notin DOMAIN device_states)
          => /\ device_states' = device_states
             /\ last_activity' = last_activity
             /\ op'.arg \notin DOMAIN device_states'
             /\ DeviceStateIn(device_states', op'.arg) = EmptyDict
             /\ ~DeviceConnectedIn(device_states', op'.arg)]_vars

\* update_device_state("rover", ...) was just called while trinetra is connected
C4_Witness ==
    /\ op = [name |-> "update_device_state", arg |-> "rover"]
    /\ "rover" \notin DOMAIN device_states
    /\ is_device_connected("trinetra")
    /\ last_activity < now

\* ---- Decision Engine ----
\* a stage of the call raised before a handler ran
StageRaised(command) ==
    \/ _normalize_command(command).raised
    \/ _extract_intent(command_patterns, _normalize_command(command).value).raised

\* C5: process_command never lets an exception out: every call, whatever the
\* input and whatever fails in normalization, classification, a handler, the
\* Knowledge Cache or the external lookup, returns a response record with a
\* status; a failure that reaches the top level gives status 'error' with an
\* 'error' description.
C5_ProcessCommandAlwaysAnswers ==
    op.name = "process_command"
        => /\ {"status", "message", "timestamp"} \subseteq DOMAIN call.response
           /\ call.response.status \in {"success", "error", "unknown", "not_found", "disabled"}
           /\ StageRaised(call.command)
                 => /\ call.response.status = "error"
                    /\ "error" \in DOMAIN call.response
                    /\ call.response.error # <<>>
                    /\ call.response.message = T("Command processing failed")

\* a knowledge query met a pattern re cannot compile: the call still answered
C5_Witness ==
    /\ op.name = "process_command"
    /\ call.command = Command("What is AI?")
    /\ call.response.status = "error"
    /\ "error" \in DOMAIN call.response
    /\ knowledge_base # <<>>

\* C6: the status of every response of process_command is one of success,
\* error, unknown.
C6_StatusIsOneOfThree ==
    op.name = "process_command" => call.response.status \in {"success", "error", "unknown"}

\* the domains in the order they are declared
DomainOrder ==
    <<"system_control", "trinetra_control", "krait3_control", "voice_control", "general">>
\* some pattern of the domain matches the text
Matches(domain, text) ==
    \E i \in 1..Len(command_patterns) :
        /\ command_patterns[i].name = domain
        /\ \E j \in 1..Len(command_patterns[i].patterns) :
              Search(command_patterns[i].patterns[j], text)

\* C7: the intent is the earliest domain, in the declared order, with a
\* pattern that matches the normalized text, and 'general' when no pattern of
\* any domain matches.
C7_EarliestMatchingDomain ==
    (op.name = "process_command" /\ call.intent # None)
        => LET hits == {k \in 1..Len(DomainOrder) : Matches(DomainOrder[k], call.normalized)}
           IN call.intent = IF hits = {} THEN "general" ELSE DomainOrder[SetMin(hits)]

\* "stop launch" matches the ground-device, air-device and voice domains
C7_Witness ==
    /\ op.name = "process_command"
    /\ call.normalized = T("stop launch")
    /\ Matches("trinetra_control", call.normalized)
    /\ Matches("krait3_control", call.normalized)
    /\ Matches("voice_control", call.normalized)
    /\ call.intent = "trinetra_control"

\* C8: "switch to m mode", in either letter case, for each of the four modes m
\* is classified system_control and answered with status success, action
\* change_mode and data.mode = m.
C8_SwitchToModeChangesMode ==
    \A m \in valid_modes :
        (/\ op.name = "process_command"
         /\ call.command.kind = "str"
         /\ Lower(call.command.text) = T("switch to ") \o T(m) \o T(" mode"))
            => /\ call.intent = "system_control"
               /\ call.response.status = "success"
               /\ call.response.action = "change_mode"
               /\ call.response.data.mode = m

C8_Witness ==
    /\ op.name = "process_command"
    /\ call.command = Command("switch to manual mode")
    /\ call.response.action = "change_mode"
    /\ call.response.data.mode = "manual"

\* C9: after process_command has returned a change_mode response, get_mode()
\* on the Context Store is the mode of that response.
C9_ModeFollowsSwitchCommand ==
    (/\ op.name = "process_command"
     /\ "action" \in DOMAIN call.response
     /\ call.response.action = "change_mode")
        => get_mode = call.response.data.mode

GroundDeviceWords == {"trinetra", "ground", "bot", "ugv"}
MoveDirections == {"forward", "backward", "left", "right"}

\* C10: a command that names the ground device and exactly one direction d of
\* forward, backward, left, right, and matches no system_control pattern, is
\* classified trinetra_control, has d among its directions, and is answered
\* with action trinetra_move, data.direction = d and a message containing d.
C10_MoveCommandCarriesDirection ==
    \A d \in MoveDirections :
        (/\ op.name = "process_command"
         /\ call.command.kind = "str"
         /\ \E w \in GroundDeviceWords : Has(call.normalized, w)
         /\ \A e \in MoveDirections : Has(call.normalized, e) <=> e = d
         /\ ~Matches("system_control", call.normalized))
            => /\ call.intent = "trinetra_control"
               /\ "directions" \in DOMAIN call.entities
               /\ \E i \in 1..Len(call.entities.directions) :
                     call.entities.directions[i] = T(d)
               /\ call.response.action = "trinetra_move"
               /\ call.response.data.direction = d
               /\ Contains(call.response.message, T(d))

C10_Witness ==
    /\ op.name = "process_command"
    /\ call.command = Command("Move TRINETRA forward")
    /\ call.normalized = T("move trinetra forward")
    /\ call.entities.directions = <<T("forward")>>
    /\ call.response.data.direction = "forward"

\* =========================================================================
\* Properties of the Knowledge Cache
\* =========================================================================
\* C11: _store_knowledge(q, payload, source) followed at once by
\* search_and_learn(q) answers with status success and source knowledge_base,
\* hands back a record that carries access_count, and sends no request to the
\* external source -- for every query, payload and source.
C11_StoreThenLookupHits ==
    [][(op.name = "_store_knowledge" /\ op'.name = "search_and_learn"
        /\ call'.query = call.query)
       => /\ call'.result.status = "success"
          /\ DictGet(call'.result, "source", "unknown") = "knowledge_base"
          /\ "access_count" \in DOMAIN DictGet(call'.result, "data", EmptyDict)
          /\ call'.lookups = 0]_vars

\* the call was answered by _handle_knowledge_query after its topic check
AskedKnowledge(c) == DictGet(c.response, "action", None) = "knowledge_query"

\* C12: a knowledge query whose topic matches no cache entry sends one request,
\* and when Wikipedia answers with a page the response names wikipedia as its
\* source; the same command processed again is answered with source
\* knowledge_base and without a request, so the two calls send exactly one.
C12_LearnedOnceThenRecalled ==
    [][(op'.name = "process_command" /\ AskedKnowledge(call'))
       => /\ (NeedsLookup(knowledge_base, Topic(call'.normalized))
               /\ api_configs["wikipedia"].enabled)
              => /\ call'.lookups = 1
                 /\ call'.reply.kind = "page" => call'.response.source = "wikipedia"
          /\ (op.name = "process_command" /\ AskedKnowledge(call)
               /\ call.command = call'.command
               /\ call.lookups = 1 /\ call.reply.kind = "page")
              => /\ call.response.source = "wikipedia"
                 /\ call'.response.source = "knowledge_base"
                 /\ call.lookups + call'.lookups = 1]_vars
\* a knowledge query answered from the cache with the record an earlier
\* processing of the same command had learned from Wikipedia
C12_Witness ==
    /\ op.name = "process_command"
    /\ AskedKnowledge(call)
    /\ call.response.source = "knowledge_base"
    /\ call.lookups = 0
    /\ call.normalized \in DOMAIN hashes
    /\ KbHas(knowledge_base, Topic(call.normalized))
    /\ KbGet(knowledge_base, Topic(call.normalized)).source = "wikipedia"

\* C13: when search_and_learn misses the cache and the request to Wikipedia
\* does not succeed (the source is disabled, the reply is not 200, or the
\* request or the parsing of its reply raises), the call returns status
\* not_found, the cache and the knowledge document stay as they were, and at
\* most one request was sent.
C13_FailedLookupChangesNothing ==
    [][(op'.name = "search_and_learn"
        /\ NeedsLookup(knowledge_base, call'.query)
        /\ (~api_configs["wikipedia"].enabled \/ call'.reply.kind # "page"))
       => /\ call'.result.status = "not_found"
          /\ knowledge_base' = knowledge_base
          /\ kb_file' = kb_file
          /\ call'.lookups <= 1]_vars
\* a lookup that found nothing in a cache holding an entry, asked Wikipedia and
\* got no answer
C13_Witness ==
    /\ op.name = "search_and_learn"
    /\ call.result.status = "not_found"
    /\ call.reply.kind = "exception"
    /\ call.lookups = 1
    /\ Len(knowledge_base) = 1
    /\ kb_file.kind = "doc"

\* C14: the cache holds one record per lower-cased query at most; a store
\* under a key that has a record leaves the number of entries as it was and
\* the entry equal to the new payload merged with the new source, learned_at
\* and access_count 1, with no field of the old record left.
C14_StoreReplacesRecord ==
    [][/\ \A i, j \in 1..Len(knowledge_base') :
              Lower(knowledge_base'[i].key) = Lower(knowledge_base'[j].key) => i = j
       /\ (op'.name = "_store_knowledge"
           /\ \E i \in 1..Len(knowledge_base) :
                  Lower(knowledge_base[i].key) = Lower(call'.query))
          => /\ Len(knowledge_base') = Len(knowledge_base)
             /\ KbHas(knowledge_base', Lower(call'.query))
             /\ KbGet(knowledge_base', Lower(call'.query))
                   = DictMerge(call'.data, [source |-> call'.source, learned_at |-> now,
                                            access_count |-> 1])
             /\ DOMAIN KbGet(knowledge_base', Lower(call'.query))
                   = DOMAIN call'.data \cup {"source", "learned_at", "access_count"}]_vars
\* "AI" stored over the record of "ai", which has been in the cache since
\* before the conversation entry behind it
C14_Witness ==
    /\ op.name = "_store_knowledge"
    /\ call.query = T("AI")
    /\ Len(knowledge_base) = 2
    /\ knowledge_base[1].key = T("ai")
    /\ knowledge_base[1].value.source = call.source
    /\ "type" \in DOMAIN knowledge_base[2].value

\* two caches with the same keys and the same record under every key
SameCache(a, b) ==
    /\ {a[i].key : i \in 1..Len(a)} = {b[i].key : i \in 1..Len(b)}
    /\ \A i \in 1..Len(a) : KbGet(b, a[i].key) = a[i].value

\* C15: whenever _store_knowledge or learn_from_conversation has returned (one
\* cache, no write failure), the knowledge document holds the keys and the
\* records of the cache in memory.
C15_DocumentEqualsCache ==
    (\/ op.name \in {"_store_knowledge", "learn_from_conversation"}
     \/ (op.name = "search_and_learn" /\ DictGet(call.result, "source", None) = "wikipedia"))
    => /\ kb_file.kind = "doc"
       /\ Len(kb_file.data) = Len(knowledge_base)
       /\ SameCache(LoadedKnowledge(kb_file), knowledge_base)
\* learn_from_conversation has returned with two entries in the cache
C15_Witness ==
    /\ op.name = "learn_from_conversation"
    /\ Len(knowledge_base) = 2
    /\ kb_file.kind = "doc"
    /\ "type" \in DOMAIN knowledge_base[2].value

HighMatches(kb, query) == {i \in 1..Len(kb) : Contains(kb[i].key, Lower(query))}
MediumMatches(kb, query) ==
    {i \in 1..Len(kb) : /\ ~Contains(kb[i].key, Lower(query))
                        /\ Contains(Lower(Repr(kb[i].value)), Lower(query))}
\* the place in the cache of the entry a result was made from
EntryOf(kb, result) == CHOOSE i \in 1..Len(kb) : kb[i].key = result.key

\* C17: search_local_knowledge returns five results at most; a result is high
\* when the lower-cased query is in its key and medium when it is only in the
\* text of its value; every high result comes before every medium one; the
\* results of one tier are in insertion order; and no medium result is
\* returned while a key match is left out.
C17_SearchRanksKeyMatchesFirst ==
    op.name = "search_local_knowledge"
    => LET kb == knowledge_base
           res == call.results
           high == HighMatches(kb, call.query)
           medium == MediumMatches(kb, call.query)
       IN /\ Len(res) <= 5
          /\ \A a \in 1..Len(res) :
                 /\ KbHas(kb, res[a].key)
                 /\ res[a].data = KbGet(kb, res[a].key)
                 /\ res[a].relevance = "high" <=> EntryOf(kb, res[a]) \in high
                 /\ res[a].relevance = "medium" <=> EntryOf(kb, res[a]) \in medium
          /\ \A a, b \in 1..Len(res) :
                 a < b => /\ ~(res[a].relevance = "medium" /\ res[b].relevance = "high")
                          /\ res[a].relevance = res[b].relevance
                                => EntryOf(kb, res[a]) < EntryOf(kb, res[b])
          /\ (\E a \in 1..Len(res) : res[a].relevance = "medium")
                => \A i \in high : \E a \in 1..Len(res) : res[a].key = kb[i].key
\* five key matches returned from a cache that holds a sixth, behind an entry
\* that matches by its value only
C17_Witness ==
    /\ op.name = "search_local_knowledge"
    /\ Len(call.results) = 5
    /\ Cardinality(HighMatches(knowledge_base, call.query)) = 6
    /\ MediumMatches(knowledge_base, call.query) # {}
    /\ SetMin(MediumMatches(knowledge_base, call.query))
          < SetMin(HighMatches(knowledge_base, call.query))

\* =========================================================================
\* Properties of the Context Store: records, activity, reset
\* =========================================================================
\* C18: update_system_state(c, s) merges s into the record stored for c: the
\* record after it has every field of s, an update stamp, and every field the
\* record had before that s does not set, unchanged; a component without a
\* record gets one.
C18_UpdateMergesSystemState ==
    [][op'.name = "update_system_state"
       => LET old == get_system_state(op'.arg)
              new == system_state'[op'.arg]
          IN /\ op'.arg \in DOMAIN system_state'
             /\ "last_updated" \in DOMAIN new
             /\ \A f \in DOMAIN op'.state : f \in DOMAIN new /\ new[f] = op'.state[f]
             /\ \A f \in DOMAIN old \ (DOMAIN op'.state \cup {"last_updated"}) :
                    f \in DOMAIN new /\ new[f] = old[f]]_vars

\* C19: every operation that changes what the store holds (set_mode with a
\* valid mode, update_system_state, add_conversation_entry, update_device_state
\* on a known device, set_user_preference, cleanup_old_data when it removes
\* entries, reset_session) sets last_activity to the time of the operation,
\* and last_activity never decreases.
C19_ActivityFollowsEveryChange ==
    [][/\ ((\/ op'.name \in {"update_system_state", "add_conversation_entry",
                              "set_user_preference", "reset_session"}
            \/ (op'.name = "set_mode" /\ op'.arg \in valid_modes)
            \/ (op'.name = "update_device_state" /\ op'.arg \in DOMAIN device_states)
            \/ (op'.name = "cleanup_old_data"
                /\ Len(conversation_history') < Len(conversation_history)))
           => last_activity' = now')
       /\ last_activity' >= last_activity]_vars

\* C20: reset_session empties the conversation history, sets
\* session_start_time and last_activity to the current time, and leaves
\* device_states, user_preferences, the mode and system_state as they were.
C20_ResetKeepsDevicesAndSettings ==
    [][op'.name = "reset_session"
       => /\ conversation_history' = <<>>
          /\ session_start_time' = now'
          /\ last_activity' = now'
          /\ device_states' = device_states
          /\ user_preferences' = user_preferences
          /\ current_mode' = current_mode
          /\ system_state' = system_state]_vars
\* a session reset a day after its start, with entries added before it, a mode,
\* a preference, a component record and a device update in place
C20_Witness ==
    /\ op.name = "reset_session"
    /\ now > 0
    /\ session_start_time = now
    /\ last_activity = now
    /\ added > 0
    /\ conversation_history = <<>>
    /\ current_mode = "night"
    /\ user_preferences # EmptyDict
    /\ system_state # EmptyDict
    /\ is_device_connected("trinetra")

KeySet(kb) == {kb[i].key : i \in 1..Len(kb)}

\* C22: no operation of one Knowledge Cache removes a key: across every step
\* of lookup_or_learn, store, search, learn_from_conversation, stats, weather
\* lookup and configure_external_source the set of keys grows or stays the same
C22_KeysNeverRemoved ==
    [][KeySet(knowledge_base) \subseteq KeySet(knowledge_base')]_vars
C22_Witness ==
    /\ op.name = "get_weather_info"
    /\ call.result.status = "success"
    /\ Cardinality(KeySet(knowledge_base)) = MaxKnowledge
    /\ KbHas(knowledge_base, ConversationKey(7))

Matching(kb, q) == {i \in 1..Len(kb) : Contains(kb[i].key, q) \/ Contains(q, kb[i].key)}
CacheHit(result) ==
    /\ result.status = "success"
    /\ result.source = "knowledge_base"

Processed_str == op.name = "process_command" /\ call.command.kind = "str"

\* C24: when process_command answers a navigation command for the aerial
\* device whose text has a coordinate pair written <number>,<number>, the
\* coordinates entity is that pair as two floats and the krait3_navigation
\* response carries it in data.coordinates
C24_CoordinatesReachNavigation ==
    (/\ Processed_str
     /\ DictGet(call.response, "action", "") = "krait3_navigation"
     /\ FindCoordinates(call.command.text, 1) # <<>>)
    => /\ DictGet(call.entities, "coordinates", <<>>) = FindCoordinates(call.command.text, 1)
       /\ call.response.data.coordinates = FindCoordinates(call.command.text, 1)

\* C25: for every input text the normalized text has no upper-case letter, no
\* character other than word characters, whitespace, hyphen and period, and no
\* run of two or more whitespace characters, and normalizing it again gives
\* the same text
C25_NormalizedIsCleanAndStable ==
    Processed_str =>
        LET n == call.normalized
        IN /\ \A i \in 1..Len(n) :
                 /\ n[i] \notin DOMAIN LowerCase
                 /\ IsWord(n[i]) \/ IsSpace(n[i]) \/ n[i] \in {"-", "."}
           /\ \A i \in 1..(Len(n) - 1) : ~(IsSpace(n[i]) /\ IsSpace(n[i + 1]))
           /\ _normalize_command([kind |-> "str", text |-> n]) = Return(n)

\* the step of the fixed precedence that a normalized text falls to
HasAny(text, words) == \E w \in words : Contains(text, T(w))
GeneralStep(text) ==
    IF HasAny(text, {"hello", "hi", "hey"}) THEN "greeting"
    ELSE IF HasAny(text, {"help"}) THEN "help"
    ELSE IF HasAny(text, {"thank", "thanks"}) THEN "acknowledge"
    ELSE IF HasAny(text, {"goodbye", "bye", "exit"}) THEN "goodbye"
    ELSE IF HasAny(text, {"what is", "tell me about", "explain", "who is", "where is"})
    THEN "knowledge_query"
    ELSE IF HasAny(text, {"weather"}) THEN "weather_query"
    ELSE IF HasAny(text, {"knowledge stats", "what do you know"}) THEN "knowledge_stats"
    ELSE "search"

\* C26: a command classified as general is answered by the first applicable
\* step of: greeting, help, thanks, farewell, interrogative prefix (knowledge
\* query), 'weather', the stats phrases, free-text cache search, default; a
\* text with an interrogative prefix and 'weather' is a knowledge query, and a
\* text with a greeting substring leaves the Knowledge Cache alone
C26_GeneralPrecedence ==
    [][(op'.name = "process_command" /\ call'.command.kind = "str"
        /\ call'.intent = "general") =>
          LET step == GeneralStep(call'.normalized)
              action == DictGet(call'.response, "action", "none")
          IN /\ step = "search" => action \in {"knowledge_recall", "default"}
             /\ step = "knowledge_query" => action \in {"knowledge_query", "none"}
             /\ step \notin {"search", "knowledge_query"} => action = step
             /\ action = "none" => call'.response.status = "error"
             /\ step \notin {"knowledge_query", "weather_query"} =>
                    /\ call'.lookups = 0
                    /\ knowledge_base' = knowledge_base
                    /\ kb_file' = kb_file]_vars
C26_Witness ==
    /\ Processed_str
    /\ call.command = Command("what is the weather")
    /\ call.intent = "general"
    /\ call.response.action = "knowledge_query"
    /\ call.lookups = 1
    /\ Len(knowledge_base) = 2

\* C27: a cache hit returned by lookup_or_learn is a Knowledge Record written
\* by store, with a source and an access_count, and never the
\* conversation-memory entry that learn_from_conversation wrote under a
\* conversation_<n> key, whatever the query
C27_HitIsKnowledgeRecord ==
    (op.name = "search_and_learn" /\ CacheHit(call.result)) =>
        /\ "source" \in DOMAIN call.result.data
        /\ "access_count" \in DOMAIN call.result.data
        /\ DictGet(call.result.data, "type", "knowledge") # "conversation"

\* =========================================================================
\* Two Decision Engines over one knowledge document
\* =========================================================================
InDocument(file, key) == KbHas(LoadedKnowledge(file), key)

\* C28: with two Decision Engines alive, each with its own Knowledge Cache over
\* the same document, the record one of them has just stored is still in the
\* document after the other stores a record under a different key
C28_PeerStoreKeepsRecord ==
    [][(/\ {op.name, op'.name} = {"_store_knowledge", "peer_store"}
        /\ Lower(call.query) # Lower(call'.query))
       => /\ InDocument(kb_file, Lower(call.query))
          /\ InDocument(kb_file', Lower(call.query))]_vars

\* C29: every trinetra_move response has data.direction in forward, backward,
\* left, right, stop, and a ground-device command whose only movement word is
\* 'stop' is answered trinetra_move with direction 'stop'
C29_MoveHasDirection ==
    (Processed_str /\ call.intent = "trinetra_control") =>
        LET action == DictGet(call.response, "action", "none")
        IN /\ action = "trinetra_move" =>
                 call.response.data.direction \in
                     {"forward", "backward", "left", "right", "stop"}
           /\ (/\ Has(call.normalized, "stop")
               /\ ~HasAny(call.normalized, {"move", "forward", "backward", "left", "right"}))
              => /\ action = "trinetra_move"
                 /\ call.response.data.direction = "stop"

\* C30: a general command that is an interrogative prefix with nothing after
\* it is answered with status error asking for a topic; the external lookup is
\* not invoked and the Knowledge Cache is unchanged in memory and in its
\* document (no knowledge record, no conversation-memory entry)
C30_EmptyTopicChangesNothing ==
    [][(/\ op'.name = "process_command"
        /\ call'.command.kind = "str"
        /\ call'.intent = "general"
        /\ call'.normalized \in {T(QuestionPrefixes[i]) : i \in 1..Len(QuestionPrefixes)})
       => /\ call'.response.status = "error"
          /\ call'.response.message = T("Please specify what you would like to know about.")
          /\ call'.lookups = 0
          /\ knowledge_base' = knowledge_base
          /\ kb_file' = kb_file]_vars
C30_Witness ==
    /\ Processed_str
    /\ call.command = Command("Explain!")
    /\ call.intent = "general"
    /\ call.response.status = "error"
    /\ call.lookups = 0
    /\ Len(knowledge_base) = MaxKnowledge
    /\ SameCache(knowledge_base, LoadedKnowledge(kb_file))
====
